---- MODULE Spec2Model ----
(***************************************************************************)
(* A model of the scenario engine of the Speedway Motors browser           *)
(* automation extension: src/content/scenario-runner.js, class             *)
(* ScenarioRunner.                                                         *)
(*                                                                         *)
(* The engine is one object whose fields are shared by every invocation of *)
(* the async method runScenario.  JavaScript runs each invocation to its   *)
(* next timer- or DOM-bound await without preemption, so one action of the *)
(* model is the code between two such suspension points.  The suspension   *)
(* points of an invocation are: a step handler in flight (executeStep),    *)
(* the back-off sleep of handleStepError, the retried executeStep, the     *)
(* post-step delay, and the sleep(100) of the paused poll loop.            *)
(***************************************************************************)
EXTENDS Integers, Sequences, FiniteSets, TLC

VARIABLES
  options,          \* this.options (the fields the engine reads)
  scenarios,        \* this.scenarios: name -> scenario definition
  currentScenario,  \* this.currentScenario: 0 is null, r > 0 the clone made for invocation r
  currentStep,      \* this.currentStep
  isRunning,        \* this.isRunning
  isPaused,         \* this.isPaused
  executionLog,     \* this.executionLog: the number of its entries
  errors,           \* this.errors: the number of its entries
  prepared,         \* the clones made by prepareScenario, by invocation
  runs,             \* the accepted invocations of runScenario: their locals, their
                    \* position, and the events emitted during their lifetime
  lastOp,           \* the last runScenario call: what it returned to its caller
                    \* ("started": it is in flight) and, when it threw at once,
                    \* the events it had emitted
  ctl,              \* the number of pause/resume/stop calls that took effect
  \* parameter substitution (resolveParameter, setParameter)
  resolvedParameters,  \* this.currentScenario.resolvedParameters: name -> value
  resolved,         \* the last call of resolveParameter: its argument and result
  \* the page detector (src/content/page-detector.js, class PageDetector)
  href,             \* window.location.href
  now,              \* Date.now(), in milliseconds since the detector was built
  isDetecting,      \* this.isDetecting
  detectionQueue,   \* this.detectionQueue: the callers whose resolve function it holds
  detectionCache,   \* this.detectionCache: URL -> [result, timestamp]
  currentPage,      \* this.currentPage
  calls,            \* the detectCurrentPage calls: their position and what they returned
  lastCall,         \* the call whose return was the last thing to happen, 0 if
                    \* something else (a navigation, time passing, a call that is
                    \* still pending) came after it
  \* the cursor movement (src/utils/mouse.js, class NaturalMouseEngine, and
  \* src/unnamed/part_003, class HumanSimulator)
  implementation,   \* which of the two classes the page runs
  isMoving,         \* this.isMoving
  hidden,           \* document.hidden
  moves,            \* the move requests: their options and their position
  dispatched,       \* the moves whose mousemove points were dispatched, in order
  \* the bounded waits of the scenario engine (src/content/scenario-runner.js,
  \* waitForNavigation ... waitForCondition and findElement)
  wait,             \* the wait a step is in: which one, Date.now() - startTime, and
                    \* how it ended
  \* the fusion of the detection signals (src/content/page-detector.js,
  \* combineDetectionResults)
  fusion,           \* the last call of combineDetectionResults: its argument and result
  \* cacheDetection on its own (src/content/page-detector.js, cacheDetection and
  \* cleanupCache)
  cacheRun,         \* the last call of cacheDetection: the cache before and after it
  \* the detection passes started by the page itself (src/content/page-detector.js,
  \* debouncedDetection and startAutoDetection)
  autoDetection,    \* the performDetection pass that debouncedDetection started, if one is in flight
  \* the re-detection triggers and their timers (src/content/page-detector.js,
  \* debounce and startAutoDetection)
  clock,            \* Date.now()
  debounceTimer,    \* the timeout of debounce: the time at which it fires, 0 if none is set
  loadTimers,       \* the timers set by the load events: the times at which they fire
  lastChange,       \* lastChange of startDomObserver
  triggers,         \* the times of the triggers so far
  passes,           \* the times at which debouncedDetection started performDetection
  \* the personas of the mouse engine and of the timing engine (src/utils/mouse.js,
  \* src/unnamed/part_006)
  movementProfile,  \* NaturalMouseEngine.movementProfile
  mouseHistory,     \* the length of NaturalMouseEngine.mouseHistory
  userProfile,      \* TimingEngine.userProfile
  fatigueLevel,     \* TimingEngine.fatigueLevel, in thousandths
  actionHistory,    \* the length of TimingEngine.actionHistory
  sessionDuration,  \* Date.now() - sessionStart, in minutes
  lastRead,         \* the persona values used by the last operation that read them
  personaOps,       \* the number of operations called on the two engines
  \* a call of humanType on an input field (src/content/human-simulator.js)
  typing,           \* the text, the position in it and the field being typed into
  \* the scenario objects by reference (src/content/scenario-runner.js, prepareScenario)
  objects,          \* the scenario objects: the registered definitions and the clones of the runs
  currentRef,       \* this.currentScenario as a reference into objects, 0 for null
  refRuns,          \* the number of runs started
  \* one move of the mouse engine along its generated path (src/utils/mouse.js,
  \* moveDirectly and executePath)
  pathRun,          \* the move: its target, the leg being executed, the cursor position and the events so far
  \* the settings update from the popup to the page (src/unnamed/part_001,
  \* src/content/content.js)
  popupSettings,    \* PopupController.settings
  settingsRequest,  \* the message on its way to the page, action "none" if there is none
  reply,            \* the response the popup received for its last message
  contentSettings,  \* SpeedwayAutoBrowser.settings
  humanSimOptions,  \* scenarioRunner.humanSim.options
  settingsUpdates,  \* the number of updateSetting calls
  \* typing into a field that holds content (src/content/human-simulator.js,
  \* src/unnamed/part_003)
  clearing,         \* the call of humanType on a field with prior content: its position, the field and the text
  \* the named elements of a page (src/content/page-detector.js, getElement)
  domNodes,         \* the nodes of the document that the selectors of the element map match
  pageElements,     \* this.pageElements for the page type: the entry found for each name
  lookup,           \* the call of getElement: its position, the name and what it returns
  elementOps        \* the number of getElement calls and of changes of the page

\* the variables of the scenario engine's run control
runnerVars == << options, scenarios, currentScenario, currentStep, isRunning, isPaused,
                 executionLog, errors, prepared, runs, lastOp, ctl >>

\* the variables of parameter substitution
parameterVars == << resolvedParameters, resolved >>

\* the variables of the page detector
detectorVars == << href, now, isDetecting, detectionQueue, detectionCache, currentPage,
                   calls, lastCall >>

\* the variables of the cursor movement
mouseVars == << implementation, isMoving, hidden, moves, dispatched >>

\* the variables of the bounded waits
waitVars == << wait >>

\* the variables of the signal fusion
fusionVars == << fusion >>

\* the variables of the cache pruning
cacheVars == << cacheRun >>

\* the variables of the automatic detection
autoVars == << autoDetection >>

\* the variables of the re-detection triggers
debounceVars == << clock, debounceTimer, loadTimers, lastChange, triggers, passes >>

\* the variables of the two personas
personaVars == << movementProfile, mouseHistory, userProfile, fatigueLevel, actionHistory, sessionDuration, lastRead, personaOps >>

\* the variables of humanType
typingVars == << typing >>

\* the variables of the scenario objects
objectVars == << objects, currentRef, refRuns >>

\* the variables of the path of a move
pathVars == << pathRun >>

\* the variables of the settings update
settingsVars == << popupSettings, settingsRequest, reply, contentSettings, humanSimOptions, settingsUpdates >>

\* the variables of the clearing of a field
clearVars == << clearing >>

\* the variables of the element lookup
elementVars == << domNodes, pageElements, lookup, elementOps >>

vars == << runnerVars, parameterVars, detectorVars, mouseVars, waitVars, fusionVars,
           cacheVars, autoVars, debounceVars, personaVars, typingVars, objectVars,
           pathVars, settingsVars, clearVars, elementVars >>

\* what the actions of one part of the program leave alone
nonRunnerVars == << parameterVars, detectorVars, mouseVars, waitVars, fusionVars,
                    cacheVars, autoVars, debounceVars, personaVars, typingVars,
                    objectVars, pathVars, settingsVars, clearVars, elementVars >>
nonParameterVars == << runnerVars, detectorVars, mouseVars, waitVars, fusionVars,
                       cacheVars, autoVars, debounceVars, personaVars, typingVars,
                       objectVars, pathVars, settingsVars, clearVars, elementVars >>
nonDetectorVars == << runnerVars, parameterVars, mouseVars, waitVars, fusionVars,
                      cacheVars, autoVars, debounceVars, personaVars, typingVars,
                      objectVars, pathVars, settingsVars, clearVars, elementVars >>
nonMouseVars == << runnerVars, parameterVars, detectorVars, waitVars, fusionVars,
                   cacheVars, autoVars, debounceVars, personaVars, typingVars,
                   objectVars, pathVars, settingsVars, clearVars, elementVars >>
nonWaitVars == << runnerVars, parameterVars, detectorVars, mouseVars, fusionVars,
                  cacheVars, autoVars, debounceVars, personaVars, typingVars,
                  objectVars, pathVars, settingsVars, clearVars, elementVars >>
nonFusionVars == << runnerVars, parameterVars, detectorVars, mouseVars, waitVars,
                    cacheVars, autoVars, debounceVars, personaVars, typingVars,
                    objectVars, pathVars, settingsVars, clearVars, elementVars >>
nonCacheVars == << runnerVars, parameterVars, detectorVars, mouseVars, waitVars,
                   fusionVars, autoVars, debounceVars, personaVars, typingVars,
                   objectVars, pathVars, settingsVars, clearVars, elementVars >>
nonAutoVars == << runnerVars, parameterVars, detectorVars, mouseVars, waitVars,
                  fusionVars, cacheVars, debounceVars, personaVars, typingVars,
                  objectVars, pathVars, settingsVars, clearVars, elementVars >>
nonDetectorAutoVars == << runnerVars, parameterVars, mouseVars, waitVars, fusionVars,
                          cacheVars, debounceVars, personaVars, typingVars, objectVars,
                          pathVars, settingsVars, clearVars, elementVars >>
nonDebounceVars == << runnerVars, parameterVars, detectorVars, mouseVars, waitVars,
                      fusionVars, cacheVars, autoVars, personaVars, typingVars,
                      objectVars, pathVars, settingsVars, clearVars, elementVars >>
nonPersonaVars == << runnerVars, parameterVars, detectorVars, mouseVars, waitVars,
                     fusionVars, cacheVars, autoVars, debounceVars, typingVars,
                     objectVars, pathVars, settingsVars, clearVars, elementVars >>
nonTypingVars == << runnerVars, parameterVars, detectorVars, mouseVars, waitVars,
                    fusionVars, cacheVars, autoVars, debounceVars, personaVars,
                    objectVars, pathVars, settingsVars, clearVars, elementVars >>
nonObjectVars == << runnerVars, parameterVars, detectorVars, mouseVars, waitVars,
                    fusionVars, cacheVars, autoVars, debounceVars, personaVars,
                    typingVars, pathVars, settingsVars, clearVars, elementVars >>
nonPathVars == << runnerVars, parameterVars, detectorVars, mouseVars, waitVars,
                  fusionVars, cacheVars, autoVars, debounceVars, personaVars,
                  typingVars, objectVars, settingsVars, clearVars, elementVars >>
nonSettingsVars == << runnerVars, parameterVars, detectorVars, mouseVars, waitVars,
                      fusionVars, cacheVars, autoVars, debounceVars, personaVars,
                      typingVars, objectVars, pathVars, clearVars, elementVars >>
nonClearVars == << runnerVars, parameterVars, detectorVars, mouseVars, waitVars,
                   fusionVars, cacheVars, autoVars, debounceVars, personaVars,
                   typingVars, objectVars, pathVars, settingsVars, elementVars >>
nonElementVars == << runnerVars, parameterVars, detectorVars, mouseVars, waitVars,
                     fusionVars, cacheVars, autoVars, debounceVars, personaVars,
                     typingVars, objectVars, pathVars, settingsVars, clearVars >>

-----------------------------------------------------------------------------
(* Bounds of the model *)

\* accepted invocations of runScenario
MaxRuns == 2
\* pause/resume/stop calls that take effect
MaxCtl == 2

-----------------------------------------------------------------------------
(* JavaScript values *)

\* `undefined` for a numeric field of a step (retryAttempts, delay, _retryCount)
Undef == -1

\* a || b on numbers: a unless it is undefined or 0
OrElse(a, b) == IF a # Undef /\ a # 0 THEN a ELSE b

\* `undefined` for a parameter value or default
NoValue == "undefined"

-----------------------------------------------------------------------------
(* Scenario definitions *)

Step(action, delay, handler, retry) ==
  [ action |-> action, delay |-> delay, handler |-> handler,
    retryAttempts |-> retry, _retryCount |-> Undef ]

Param(default, required) == [ default |-> default, required |-> required ]

\* initBuiltInScenarios: the parameter schema and the steps of each built-in
\* scenario (action, delay, whether a handler function is attached; no
\* built-in step sets retryAttempts).
BuiltInScenarios ==
  [ product_search |->
      [ name |-> "Product Search",
        parameters |-> [ p \in {"searchTerm"} |-> Param("racing wheels", TRUE) ],
        steps |-> << Step("navigate", 2000, FALSE, Undef),
                     Step("click", 1000, FALSE, Undef),
                     Step("type", 1000, FALSE, Undef),
                     Step("click", 3000, FALSE, Undef),
                     Step("wait", 1000, FALSE, Undef),
                     Step("click", 2000, FALSE, Undef) >> ],
    category_browse |->
      [ name |-> "Category Browse",
        parameters |-> [ p \in {"categoryName"} |-> Param("Circle Track", FALSE) ],
        steps |-> << Step("navigate", 2000, FALSE, Undef),
                     Step("hover", 500, FALSE, Undef),
                     Step("click", 2000, FALSE, Undef),
                     Step("scroll", 1500, FALSE, Undef),
                     Step("click", 2000, FALSE, Undef) >> ],
    add_to_cart |->
      [ name |-> "Add to Cart",
        parameters |-> [ p \in {"searchTerm", "quantity"} |->
                           IF p = "searchTerm" THEN Param("oil filter", TRUE)
                                               ELSE Param("1", FALSE) ],
        steps |-> << Step("custom", Undef, TRUE, Undef),
                     Step("click", 2000, FALSE, Undef),
                     Step("type", 500, FALSE, Undef),
                     Step("click", 2000, FALSE, Undef),
                     Step("verify", 1000, FALSE, Undef) >> ],
    menu_navigation |->
      [ name |-> "Menu Navigation",
        parameters |-> [ p \in {} |-> Param(NoValue, FALSE) ],
        steps |-> << Step("navigate", 2000, FALSE, Undef),
                     Step("custom", 3000, TRUE, Undef),
                     Step("scroll", 2000, FALSE, Undef) >> ],
    realistic_browsing |->
      [ name |-> "Realistic Browsing",
        parameters |-> [ p \in {"duration", "searchTerms"} |->
                           IF p = "duration" THEN Param("60", FALSE)
                                             ELSE Param("brake pads,oil filter,racing seat", FALSE) ],
        steps |-> << Step("custom", Undef, TRUE, Undef) >> ] ]

\* a scenario a caller registers with addScenario: a two-step flow with a
\* required parameter that has no default, whose steps set retryAttempts
UserScenarios ==
  [ user_flow |->
      [ name |-> "User Flow",
        parameters |-> [ p \in {"token"} |-> Param(NoValue, TRUE) ],
        steps |-> << Step("click", Undef, FALSE, 2),
                     Step("type", 500, FALSE, 0) >> ] ]

\* runScenario called without parameters: parameters = {}
NoParameters == [ p \in {} |-> "supplied" ]

\* the runScenario calls of the model: an unregistered name; product_search
\* (a required parameter with a default) and realistic_browsing (defaults
\* only, one custom step) without parameters; user_flow without and with its
\* required parameter
Calls ==
  { [ name |-> "missing", parameters |-> NoParameters ],
    [ name |-> "product_search", parameters |-> NoParameters ],
    [ name |-> "realistic_browsing", parameters |-> NoParameters ],
    [ name |-> "user_flow", parameters |-> NoParameters ],
    [ name |-> "user_flow", parameters |-> [ p \in {"token"} |-> "supplied" ] ] }

\* constructor, line 12 and 14: options.retryAttempts || 3, then ...options
\* overrides it with whatever the caller passed, 0 included
DefaultRetryAttempts == 3
RetryAttemptsOptions == {0, DefaultRetryAttempts}

\* constructor, line 13
DefaultDelay == 1000

-----------------------------------------------------------------------------
(* The engine's mutable fields as one value, so that a block of code is a  *)
(* function from engine state to engine state.                             *)

Engine ==
  [ currentScenario |-> currentScenario, currentStep |-> currentStep,
    isRunning |-> isRunning, isPaused |-> isPaused,
    executionLog |-> executionLog, errors |-> errors,
    prepared |-> prepared, runs |-> runs ]

Commit(s) ==
  /\ currentScenario' = s.currentScenario
  /\ currentStep' = s.currentStep
  /\ isRunning' = s.isRunning
  /\ isPaused' = s.isPaused
  /\ executionLog' = s.executionLog
  /\ errors' = s.errors
  /\ prepared' = s.prepared
  /\ runs' = s.runs

\* logInfo, line 951: the log is cut back to 100 entries
LogCap == 100

\* logInfo (and logSuccess, which calls it): push, then shift when the log
\* holds more than LogCap entries
LogInfo(s) ==
  LET pushed == s.executionLog + 1
  IN [ s EXCEPT !.executionLog = IF pushed > LogCap THEN pushed - 1 ELSE pushed ]

\* logWarn: push
LogWarn(s) == [ s EXCEPT !.executionLog = @ + 1 ]

\* logError: push to the log and to errors
LogError(s) == [ s EXCEPT !.executionLog = @ + 1, !.errors = @ + 1 ]

\* the payload of an event: step is the step, steps or (for onStepStart and
\* onStepComplete) 1-based step field, Undef when the payload has none
Event(type, step, scenario, error, stopped) ==
  [ type |-> type, step |-> step, scenario |-> scenario,
    error |-> error, stopped |-> stopped ]

\* the invocations that have not settled
InFlight(rs) == { r \in DOMAIN rs : rs[r].pc \notin {"done", "failed", "released"} }

\* emit, called by the code of invocation r
Emit(s, r, e) == [ s EXCEPT !.runs[r].emitted = Append(@, e) ]

\* emit, called by pause(), resume() or stop(): the event falls into the
\* lifetime of every invocation in flight
EmitControl(s, e) ==
  [ s EXCEPT !.runs = [ r \in DOMAIN s.runs |->
                          IF r \in InFlight(s.runs)
                          THEN [ s.runs[r] EXCEPT !.emitted = Append(@, e) ]
                          ELSE s.runs[r] ] ]

SetPc(s, r, pc) == [ s EXCEPT !.runs[r].pc = pc ]

-----------------------------------------------------------------------------
(* prepareScenario *)

\* parameters[paramName]
Supplied(parameters, p) == IF p \in DOMAIN parameters THEN parameters[p] ELSE NoValue

\* a variant of lines 697-699 that lets a default stand in for a required
\* parameter
MissingRequired_UnlessDefault(paramConfig, value) ==
  value = NoValue /\ paramConfig.required /\ paramConfig.default = NoValue

\* lines 697-699: the value is undefined and the parameter is required
MissingRequired(paramConfig, value) == value = NoValue /\ paramConfig.required

\* prepareScenario throws "Required parameter ... not provided"
PrepareThrows(scenario, parameters) ==
  \E p \in DOMAIN scenario.parameters :
    MissingRequired(scenario.parameters[p], Supplied(parameters, p))

\* JSON.parse(JSON.stringify(step)): a function-valued field is dropped
CloneStep(step) == [ step EXCEPT !.handler = FALSE ]

\* lines 695-704: the value resolved for one parameter
ResolveValue(paramConfig, value) == IF value = NoValue THEN paramConfig.default ELSE value

\* prepareScenario, when it does not throw: the deep clone with its
\* resolvedParameters
PrepareScenario(scenario, parameters) ==
  [ name |-> scenario.name,
    steps |-> [ k \in DOMAIN scenario.steps |-> CloneStep(scenario.steps[k]) ],
    resolvedParameters |->
      [ p \in DOMAIN scenario.parameters |->
          ResolveValue(scenario.parameters[p], Supplied(parameters, p)) ] ]

-----------------------------------------------------------------------------
(* executeStep *)

NoHandlerError == "Custom action requires a handler function"

\* executeStep ends normally ("ok") or throws an error with this message.
\* handleCustomAction throws when the step holds no handler function; every
\* other outcome depends on the page and is left open.
StepOutcomes(step) ==
  IF step.action = "custom"
  THEN IF step.handler THEN {"ok", "Handler failed"} ELSE {NoHandlerError}
  ELSE {"ok", "Element not found"}

Outcomes == {"ok", "Element not found", "Handler failed", NoHandlerError}

-----------------------------------------------------------------------------
(* runScenario and executeScenario, between suspension points.  r is the    *)
(* invocation, i the loop variable of executeScenario (0-based, as in the  *)
(* source); the steps array an invocation iterates is its own clone,       *)
(* s.prepared[r].steps.                                                    *)

StepOf(s, r, i) == s.prepared[r].steps[i + 1]

\* the finally block of runScenario
Finally(s) == [ s EXCEPT !.isRunning = FALSE, !.currentScenario = 0 ]

\* runScenario lines 80-85 and the finally block: executeScenario returned
\* (broke: through the break of line 105)
Finish(s, r, broke) ==
  LET s1 == LogInfo(s)
      s2 == Emit(s1, r, Event("onComplete", s1.currentStep, s1.runs[r].name, "", FALSE))
  IN Finally([ s2 EXCEPT !.runs[r].pc = "done", !.runs[r].broke = broke ])

\* runScenario lines 86-93 and the finally block: executeScenario threw
Abort(s, r, error) ==
  LET s1 == LogError(s)
      s2 == Emit(s1, r, Event("onError", s1.currentStep, s1.runs[r].name, error, FALSE))
  IN Finally([ s2 EXCEPT !.runs[r].pc = "failed", !.runs[r].err = error ])

\* executeScenario lines 112-119: step i starts and its handler is in flight
StartStep(s, r, i) ==
  LET s1 == LogInfo([ s EXCEPT !.currentStep = i ])
      s2 == Emit(s1, r, Event("onStepStart", i + 1, "", "", FALSE))
  IN [ s2 EXCEPT !.runs[r].pc = "step", !.runs[r].i = i, !.runs[r].attempts = 1 ]

\* i++ of the for loop
NextIndex(i) == i + 1

\* line 105
LoopBreaks(s) == ~s.isRunning

\* line 108
PollContinues(s) == s.isPaused /\ s.isRunning

\* executeScenario lines 104-119: the head of the loop for index i, up to
\* the next suspension point (or the return of executeScenario)
Iterate(s, r, i) ==
  IF i >= Len(s.prepared[r].steps) THEN Finish(s, r, FALSE)
  ELSE IF LoopBreaks(s) THEN Finish(s, r, TRUE)
  ELSE IF PollContinues(s) THEN [ s EXCEPT !.runs[r].pc = "paused", !.runs[r].i = i ]
  ELSE StartStep(s, r, i)

\* lines 127-129: the post-step delay, or straight to the next iteration
PostStep(s, r, i, defaultDelay) ==
  IF OrElse(OrElse(StepOf(s, r, i).delay, defaultDelay), 0) # 0
  THEN SetPc(s, r, "delay")
  ELSE Iterate(s, r, NextIndex(i))

\* lines 120-121: executeStep returned
StepSucceeds(s, r, i) ==
  Emit(LogInfo(s), r, Event("onStepComplete", i + 1, "", "", FALSE))

\* handleStepError line 657
MaxRetries(step, retryAttempts) == OrElse(step.retryAttempts, retryAttempts)

\* handleStepError line 660
MayRetry(currentRetries, maxRetries) == currentRetries < maxRetries

\* handleStepError lines 655-667, up to the back-off sleep or the rethrow
HandleStepError(s, r, i, error, retryAttempts) ==
  LET s1 == LogError(s)
      step == StepOf(s1, r, i)
      maxRetries == MaxRetries(step, retryAttempts)
      currentRetries == OrElse(step._retryCount, 0)
  IN IF MayRetry(currentRetries, maxRetries)
     THEN SetPc(LogWarn([ s1 EXCEPT !.prepared[r].steps[i + 1]._retryCount = currentRetries + 1 ]),
                r, "backoff")
     ELSE Abort(s1, r, error)

\* the retried executeStep of line 665 returned: handleStepError returns
RetrySucceeds(s, r, i) == s

\* the retried executeStep of line 665 threw: the error leaves handleStepError
\* and executeScenario
RetryThrows(s, r, error) == Abort(s, r, error)

-----------------------------------------------------------------------------
(* Actions *)

engineVars == << currentScenario, currentStep, isRunning, isPaused, executionLog,
                 errors, prepared, runs >>

\* the locals of a fresh invocation.  attempts counts the executeStep calls
\* for step i; stopped and broke record that stop() took effect while the
\* invocation was in flight and that its loop was left through the break of
\* line 105; emitted are the events of its lifetime.
NewRun(name) ==
  [ pc |-> "new", name |-> name, i |-> 0, attempts |-> 0, err |-> "",
    stopped |-> FALSE, broke |-> FALSE, emitted |-> << >> ]

\* Once an invocation has settled nothing refers to its locals or its clone.
\* The model keeps them until the next invocation is accepted and then
\* drops them.
Released == [ NewRun("") EXCEPT !.pc = "released" ]

ReleasedScenario == [ name |-> "", steps |-> << >>, resolvedParameters |-> NoParameters ]

Release(s) ==
  [ s EXCEPT !.runs = [ r \in DOMAIN s.runs |->
                          IF r \in InFlight(s.runs) THEN s.runs[r]
                          ELSE Released ],
             !.prepared = [ r \in DOMAIN s.prepared |->
                              IF r \in InFlight(s.runs) THEN s.prepared[r]
                              ELSE ReleasedScenario ] ]

\* a variant of line 59 that lets every call through
RejectsBusy_Never == FALSE

\* runScenario line 59
RejectsBusy == isRunning

\* runScenario lines 68-79 and the start of executeScenario, up to the first
\* suspension point
Accept(s, name, parameters) ==
  LET r == Len(s.runs) + 1
      s1 == [ s EXCEPT !.prepared = Append(@, PrepareScenario(scenarios[name], parameters)),
                       !.runs = Append(@, NewRun(name)),
                       !.currentScenario = r,
                       !.currentStep = 0,
                       !.isRunning = TRUE,
                       !.isPaused = FALSE,
                       !.executionLog = 0,
                       !.errors = 0 ]
      s2 == Emit(LogInfo(s1), r, Event("onStart", Undef, name, "", FALSE))
  IN Iterate(s2, r, 0)

\* runScenario is in flight: its events are those of runs[r].emitted
Started == [ op |-> "runScenario", result |-> "started", emitted |-> << >> ]

\* runScenario threw on lines 59-68, before the first emit of line 76
Thrown(message) == [ op |-> "runScenario", result |-> message, emitted |-> << >> ]

BusyError == "Another scenario is already running"
NotFoundError == "Scenario not found"
RequiredError == "Required parameter not provided"

\* a call of runScenario(name, parameters): it throws at once, or runs to
\* the first suspension point of the new invocation
RunScenario(name, parameters) ==
  /\ UNCHANGED nonRunnerVars
  /\ IF RejectsBusy
     THEN /\ lastOp' = Thrown(BusyError)
          /\ UNCHANGED << engineVars, options, scenarios, ctl >>
     ELSE IF name \notin DOMAIN scenarios
     THEN /\ lastOp' = Thrown(NotFoundError)
          /\ UNCHANGED << engineVars, options, scenarios, ctl >>
     ELSE IF PrepareThrows(scenarios[name], parameters)
     THEN /\ lastOp' = Thrown(RequiredError)
          /\ UNCHANGED << engineVars, options, scenarios, ctl >>
     ELSE /\ Len(runs) < MaxRuns
          /\ Commit(Accept(Release(Engine), name, parameters))
          /\ lastOp' = Started
          /\ UNCHANGED << options, scenarios, ctl >>

\* the handler of step i settles: executeScenario lines 120-129, or the
\* catch of line 123
StepSettles(r, outcome) ==
  /\ r \in DOMAIN runs
  /\ runs[r].pc = "step"
  /\ outcome \in StepOutcomes(StepOf(Engine, r, runs[r].i))
  /\ IF outcome = "ok"
     THEN Commit(PostStep(StepSucceeds(Engine, r, runs[r].i), r, runs[r].i, options.defaultDelay))
     ELSE Commit(HandleStepError(Engine, r, runs[r].i, outcome, options.retryAttempts))
  /\ UNCHANGED << options, scenarios, lastOp, ctl >>
  /\ UNCHANGED nonRunnerVars

\* the back-off sleep of line 664 ends: executeStep is called again
BackoffEnds(r) ==
  /\ r \in DOMAIN runs
  /\ runs[r].pc = "backoff"
  /\ Commit([ Engine EXCEPT !.runs[r].pc = "retry", !.runs[r].attempts = @ + 1 ])
  /\ UNCHANGED << options, scenarios, lastOp, ctl >>
  /\ UNCHANGED nonRunnerVars

\* the retried handler settles: handleStepError returns and the post-step
\* delay follows, or the error propagates
RetrySettles(r, outcome) ==
  /\ r \in DOMAIN runs
  /\ runs[r].pc = "retry"
  /\ outcome \in StepOutcomes(StepOf(Engine, r, runs[r].i))
  /\ IF outcome = "ok"
     THEN Commit(PostStep(RetrySucceeds(Engine, r, runs[r].i), r, runs[r].i, options.defaultDelay))
     ELSE Commit(RetryThrows(Engine, r, outcome))
  /\ UNCHANGED << options, scenarios, lastOp, ctl >>
  /\ UNCHANGED nonRunnerVars

\* the post-step delay ends: the loop goes to its next iteration
DelayEnds(r) ==
  /\ r \in DOMAIN runs
  /\ runs[r].pc = "delay"
  /\ Commit(Iterate(Engine, r, NextIndex(runs[r].i)))
  /\ UNCHANGED << options, scenarios, lastOp, ctl >>
  /\ UNCHANGED nonRunnerVars

\* a sleep(100) of the paused poll loop ends and the loop condition of line
\* 108 is found false (found true, the invocation sleeps again)
PollEnds(r) ==
  /\ r \in DOMAIN runs
  /\ runs[r].pc = "paused"
  /\ ~PollContinues(Engine)
  /\ Commit(StartStep(Engine, r, runs[r].i))
  /\ UNCHANGED << options, scenarios, lastOp, ctl >>
  /\ UNCHANGED nonRunnerVars

\* pause() when it takes effect (otherwise it does nothing)
Pause ==
  /\ isRunning /\ ~isPaused
  /\ ctl < MaxCtl
  /\ Commit(EmitControl(LogInfo([ Engine EXCEPT !.isPaused = TRUE ]),
                        Event("onPause", Undef, "", "", FALSE)))
  /\ ctl' = ctl + 1
  /\ UNCHANGED << options, scenarios, lastOp >>
  /\ UNCHANGED nonRunnerVars

\* resume() when it takes effect
Resume ==
  /\ isRunning /\ isPaused
  /\ ctl < MaxCtl
  /\ Commit(EmitControl(LogInfo([ Engine EXCEPT !.isPaused = FALSE ]),
                        Event("onResume", Undef, "", "", FALSE)))
  /\ ctl' = ctl + 1
  /\ UNCHANGED << options, scenarios, lastOp >>
  /\ UNCHANGED nonRunnerVars

\* every invocation in flight is marked as having been stopped
MarkStopped(s) ==
  [ s EXCEPT !.runs = [ r \in DOMAIN s.runs |->
                          IF r \in InFlight(s.runs)
                          THEN [ s.runs[r] EXCEPT !.stopped = TRUE ]
                          ELSE s.runs[r] ] ]

\* stop() when it takes effect
Stop ==
  /\ isRunning
  /\ ctl < MaxCtl
  /\ Commit(EmitControl(LogInfo(MarkStopped([ Engine EXCEPT !.isRunning = FALSE,
                                                             !.isPaused = FALSE ])),
                        Event("onComplete", Undef, "", "", TRUE)))
  /\ ctl' = ctl + 1
  /\ UNCHANGED << options, scenarios, lastOp >>
  /\ UNCHANGED nonRunnerVars

\* addScenario(name, scenario)
AddScenario(name) ==
  /\ name \in DOMAIN UserScenarios
  /\ name \notin DOMAIN scenarios
  /\ scenarios' = scenarios @@ (name :> UserScenarios[name])
  /\ UNCHANGED << engineVars, options, lastOp, ctl >>
  /\ UNCHANGED nonRunnerVars


-----------------------------------------------------------------------------
(* Parameter substitution: resolveParameter and setParameter.  A value is  *)
(* a JavaScript value, given by its type and by the text String(value)     *)
(* yields; a string step field is the sequence of its pieces, literal text *)
(* and placeholders ${name} as the regular expression of line 675 finds    *)
(* them.                                                                   *)

JsString(text) == [ type |-> "string", text |-> text ]
JsNumber(text) == [ type |-> "number", text |-> text ]
JsBoolean(text) == [ type |-> "boolean", text |-> text ]

\* the values that are false in a boolean context
Falsy(v) ==
  \/ v.type = "string" /\ v.text = ""
  \/ v.type = "number" /\ v.text \in {"0", "NaN"}
  \/ v.type = "boolean" /\ v.text = "false"

Literal(text) == [ placeholder |-> FALSE, text |-> text ]
Placeholder(name) == [ placeholder |-> TRUE, text |-> name ]

\* the matched text of a placeholder
Match(name) == "${" \o name \o "}"

StringField(pieces) == [ type |-> "string", pieces |-> pieces ]

\* a step field that is not a string (a number, a boolean, undefined)
OtherField == [ type |-> "other", pieces |-> << >> ]

\* the callback of line 675-677 for one placeholder:
\* resolvedParameters[paramName] || match
Replacement(parameters, name) ==
  IF name \in DOMAIN parameters /\ ~Falsy(parameters[name])
  THEN parameters[name].text
  ELSE Match(name)

\* resolveParameter(value): the pieces of the returned string
ResolveParameterResult(value, parameters) ==
  IF value.type # "string" THEN value
  ELSE StringField([ k \in DOMAIN value.pieces |->
                       IF value.pieces[k].placeholder
                       THEN Replacement(parameters, value.pieces[k].text)
                       ELSE value.pieces[k].text ])

\* the values a caller supplies for the parameters of add_to_cart (any value
\* but undefined is taken as given by prepareScenario) or its defaults
ParameterValues ==
  { JsString("oil filter"), JsString(""), JsNumber("1"), JsNumber("0"),
    JsBoolean("true"), JsBoolean("false") }

\* what handleExtract reads from an element and stores under step.storeAs
ExtractedValues == { JsString("19.99"), JsString("") }
StoreAsNames == { "price" }

\* the step fields handed to resolveParameter
StepFields ==
  { StringField(<< Placeholder("searchTerm") >>),
    StringField(<< Literal("qty="), Placeholder("quantity"), Literal("&again="), Placeholder("quantity") >>),
    StringField(<< Literal("$"), Placeholder("price") >>),
    StringField(<< Literal("/search") >>),
    OtherField }

NoResolution == [ value |-> OtherField, result |-> OtherField ]

\* resolveParameter(value), called by a step handler
ResolveParameter(value) ==
  /\ resolved' = [ value |-> value, result |-> ResolveParameterResult(value, resolvedParameters) ]
  /\ UNCHANGED resolvedParameters
  /\ UNCHANGED nonParameterVars

\* setParameter(name, value), called by handleExtract for step.storeAs
SetParameter(name, value) ==
  /\ resolvedParameters' = [ p \in DOMAIN resolvedParameters \cup {name} |->
                               IF p = name THEN value ELSE resolvedParameters[p] ]
  /\ UNCHANGED resolved
  /\ UNCHANGED nonParameterVars

-----------------------------------------------------------------------------
(* The page detector: detectCurrentPage, performDetection, the detection    *)
(* cache and the queue of concurrent callers.  performDetection awaits its  *)
(* four signals and the element scan; a call of detectCurrentPage that runs *)
(* it is suspended from the line 81 until it settles.                       *)

\* callers of detectCurrentPage
MaxCallers == 3
\* the step of the clock and the time the model follows
TickMs == 15000
MaxNow == 30000

\* constructor, line 14
CacheTimeout == 30000
\* cleanupCache, line 992
CacheLimit == 50

Urls == { "https://www.speedwaymotors.com/garage", "https://www.speedwaymotors.com/deals" }

\* the detection methods of performDetection, in the order of lines 120-123
SignalNames == << "url", "dom", "content", "meta" >>

\* their weights (0.7, 0.9, 0.6, 0.5), in units of 1/120 so that the mean of
\* up to four of them is a whole number
Weight(method) ==
  CASE method = "url" -> 84
    [] method = "dom" -> 108
    [] method = "content" -> 72
    [] method = "meta" -> 60

\* a document, as the four signals see it: the page type each reports
\* ("unknown" for none), or "throws" when the signal fails or times out
Document(url, dom, content, meta) ==
  [ url |-> url, dom |-> dom, content |-> content, meta |-> meta ]

Documents ==
  { Document("unknown", "unknown", "unknown", "unknown"),
    Document("unknown", "unknown", "unknown", "product"),
    Document("product", "product", "unknown", "product"),
    Document("search", "throws", "unknown", "unknown") }

\* what the element scan of getPageElementsSafe finds
ElementMaps == { {}, {"searchBox"} }

\* initElementMaps has a map for these page types only
HasElementMap(type) == type \in {"search", "product", "category", "cart"}

\* performDetection lines 128-136: the entry of results for one method
SignalResult(method, outcome) ==
  IF outcome = "throws"
  THEN [ type |-> "unknown", confidence |-> 0, error |-> "Timeout" ]
  ELSE [ type |-> outcome, confidence |-> Weight(method), error |-> "" ]

DetectionResults(document) ==
  [ method \in {"url", "dom", "content", "meta"} |-> SignalResult(method, document[method]) ]

\* combineDetectionResults: the loop of lines 1154-1165 from method k on
RECURSIVE CombineFrom(_, _, _)
CombineFrom(results, k, acc) ==
  IF k > Len(SignalNames) THEN acc
  ELSE LET result == results[SignalNames[k]]
       IN CombineFrom(results, k + 1,
            IF result.type # "unknown" /\ result.error = ""
            THEN [ bestType |-> IF result.confidence > acc.bestScore THEN result.type ELSE acc.bestType,
                   bestScore |-> IF result.confidence > acc.bestScore THEN result.confidence ELSE acc.bestScore,
                   combinedConfidence |-> acc.combinedConfidence + result.confidence,
                   methodCount |-> acc.methodCount + 1 ]
            ELSE acc)

\* combineDetectionResults
CombineDetectionResults(results) ==
  LET acc == CombineFrom(results, 1, [ bestType |-> "unknown", bestScore |-> 0,
                                       combinedConfidence |-> 0, methodCount |-> 0 ])
  IN [ type |-> acc.bestType,
       confidence |-> IF acc.methodCount > 0
                      THEN acc.combinedConfidence \div acc.methodCount ELSE 0 ]

\* no snapshot: null
NoSnapshot ==
  [ url |-> "", type |-> "none", confidence |-> 0, elements |-> {},
    detectionMethods |-> [ method \in {} |-> 0 ], error |-> "",
    fromCache |-> FALSE, fromQueue |-> FALSE ]

\* performDetection lines 108-159: the snapshot for the URL read at its start
Snapshot(url, document, elements) ==
  LET results == DetectionResults(document)
      fused == CombineDetectionResults(results)
  IN [ NoSnapshot EXCEPT !.url = url, !.type = fused.type, !.confidence = fused.confidence,
                         !.elements = IF HasElementMap(fused.type) THEN elements ELSE {},
                         !.detectionMethods = results ]

\* getFallbackDetection
FallbackDetection(url, message) ==
  [ NoSnapshot EXCEPT !.url = url, !.type = "unknown", !.confidence = 0, !.error = message ]

\* a variant of getCachedDetection's test under which no entry is ever fresh
CacheFresh_Never(entry, t) == FALSE

\* getCachedDetection line 962
CacheFresh(entry, t) == t - entry.timestamp < CacheTimeout

\* getCachedDetection finds an entry to return
CacheHit == href \in DOMAIN detectionCache /\ CacheFresh(detectionCache[href], now)

\* a variant of the sort of line 994 that puts the newest entries first
Before_NewestFirst(cache, u, v) ==
  \/ cache[u].timestamp > cache[v].timestamp
  \/ cache[u].timestamp = cache[v].timestamp /\ cache[u].inserted > cache[v].inserted

\* cleanupCache lines 993-994: entry u comes before entry v in the sorted
\* array.  The sort is by timestamp and stable, and Array.from lists the
\* entries in the order in which their keys were first inserted.
Before(cache, u, v) ==
  \/ cache[u].timestamp < cache[v].timestamp
  \/ cache[u].timestamp = cache[v].timestamp /\ cache[u].inserted < cache[v].inserted

\* the index of entry u in the sorted array
SortedIndex(cache, u) == Cardinality({ v \in DOMAIN cache : Before(cache, v, u) })

\* cleanupCache: entries older than cacheTimeout go; above 50 entries the
\* oldest half goes (the indices i with i < entries.length / 2)
CleanupCache(cache, t) ==
  LET young == [ u \in { v \in DOMAIN cache : ~(t - cache[v].timestamp > CacheTimeout) }
                   |-> cache[u] ]
      n == Cardinality(DOMAIN young)
      oldest == IF n > CacheLimit
                THEN { u \in DOMAIN young : 2 * SortedIndex(young, u) < n }
                ELSE {}
  IN [ u \in DOMAIN young \ oldest |-> young[u] ]

\* the place of a key that Map.set adds: after the keys the map holds
NextPlace(cache) ==
  IF DOMAIN cache = {} THEN 1
  ELSE 1 + (CHOOSE k \in { cache[u].inserted : u \in DOMAIN cache } :
              \A u \in DOMAIN cache : cache[u].inserted <= k)

\* cacheDetection: Map.set keeps the place of a key the map already holds
CacheDetection(cache, url, result, t) ==
  CleanupCache([ u \in DOMAIN cache \cup {url} |->
                   IF u = url
                   THEN [ result |-> result, timestamp |-> t,
                          inserted |-> IF url \in DOMAIN cache THEN cache[url].inserted
                                       ELSE NextPlace(cache) ]
                   ELSE cache[u] ], t)

Returned(result) == [ pc |-> "returned", result |-> result ]

\* the callers waiting in the queue
Queued == { detectionQueue[k] : k \in DOMAIN detectionQueue }

\* the callers whose performDetection is in flight
Detecting == { c \in DOMAIN calls : calls[c].pc = "detecting" }

\* detectCurrentPage, up to its return or to the await of line 81.  The
\* finally block runs when the function returns: at once on a cache hit and
\* when the call joins the queue.
DetectCurrentPage(c) ==
  /\ calls[c].pc = "idle"
  /\ \A d \in 1..(c - 1) : calls[d].pc # "idle"
  /\ IF CacheHit
     THEN /\ calls' = [ calls EXCEPT ![c] =
                          Returned([ detectionCache[href].result EXCEPT !.fromCache = TRUE ]) ]
          /\ lastCall' = c
          /\ isDetecting' = FALSE
          /\ UNCHANGED detectionQueue
     ELSE IF isDetecting
     THEN /\ detectionQueue' = Append(detectionQueue, c)
          /\ calls' = [ calls EXCEPT ![c].pc = "queued" ]
          /\ lastCall' = 0
          /\ isDetecting' = FALSE
     ELSE /\ isDetecting' = TRUE
          /\ calls' = [ calls EXCEPT ![c] = [ pc |-> "detecting",
                                              result |-> [ NoSnapshot EXCEPT !.url = href ] ] ]
          /\ lastCall' = 0
          /\ UNCHANGED detectionQueue
  /\ UNCHANGED << href, now, detectionCache, currentPage >>
  /\ UNCHANGED nonDetectorVars

\* performDetection returns to the call c that runs it: lines 81-90 and the
\* finally block
DetectionSettles(c, document, elements) ==
  /\ calls[c].pc = "detecting"
  /\ LET result == Snapshot(calls[c].result.url, document, elements)
     IN /\ currentPage' = result
        /\ detectionCache' = CacheDetection(detectionCache, href, result, now)
        /\ calls' = [ d \in DOMAIN calls |->
                        IF d = c THEN Returned(result)
                        ELSE IF d \in Queued THEN Returned([ result EXCEPT !.fromQueue = TRUE ])
                        ELSE calls[d] ]
  /\ detectionQueue' = << >>
  /\ isDetecting' = FALSE
  /\ lastCall' = c
  /\ UNCHANGED << href, now >>
  /\ UNCHANGED nonDetectorVars

\* performDetection throws: the catch of lines 92-97 and the finally block
DetectionThrows(c) ==
  /\ calls[c].pc = "detecting"
  /\ calls' = [ calls EXCEPT ![c] = Returned(FallbackDetection(href, "Detection error")) ]
  /\ isDetecting' = FALSE
  /\ lastCall' = c
  /\ UNCHANGED << href, now, detectionQueue, detectionCache, currentPage >>
  /\ UNCHANGED nonDetectorVars

\* the page navigates
Navigate(url) ==
  /\ url # href
  /\ href' = url
  /\ lastCall' = 0
  /\ UNCHANGED << now, isDetecting, detectionQueue, detectionCache, currentPage, calls >>
  /\ UNCHANGED nonDetectorVars

\* time passes
Tick ==
  /\ now + TickMs <= MaxNow
  /\ now' = now + TickMs
  /\ lastCall' = 0
  /\ UNCHANGED << href, isDetecting, detectionQueue, detectionCache, currentPage, calls >>
  /\ UNCHANGED nonDetectorVars

-----------------------------------------------------------------------------
(* The cursor movement: moveToPosition of NaturalMouseEngine and moveMouseTo *)
(* of the improved HumanSimulator.  A move is suspended at every sleep of    *)
(* executePath, at every animation frame, and in waitForMovementComplete.    *)

\* move requests
MaxMoves == 3
\* mousemove points of one leg of a path
PathLength == 2

NaturalMouseEngine == "NaturalMouseEngine"
HumanSimulator == "HumanSimulator"

\* a move that was not requested yet
NoMove ==
  [ pc |-> "idle", force |-> FALSE, valid |-> TRUE, idle |-> FALSE, waited |-> FALSE,
    legs |-> 0, points |-> 0 ]

\* the moves that dispatch a path: between this.isMoving = true and the
\* finally block
MovesInFlight == { m \in DOMAIN moves : moves[m].pc \in {"moving", "pausing"} }

\* a variant of the test of line 87 under which no request waits
Defers_Never(force) == FALSE

\* mouse.js line 87, part_003 line 194: the request waits for the move in
\* flight
Defers(force) == isMoving /\ ~force

\* the finally block of moveToPosition and moveMouseTo
MoveEnds(m) ==
  /\ isMoving' = FALSE
  /\ moves' = [ moves EXCEPT ![m].pc = "done" ]

\* mouse.js lines 90-100 and executePath up to its first sleep: the flag is
\* set and the first point of the first leg is dispatched in the same turn;
\* part_003 lines 203-209: the flag is set and the first animation frame is
\* requested
Begin(m, request, overshoot) ==
  /\ isMoving' = TRUE
  /\ IF implementation = NaturalMouseEngine
     THEN /\ moves' = [ moves EXCEPT ![m] = [ request EXCEPT !.pc = "moving",
                                                             !.legs = IF overshoot THEN 1 ELSE 0,
                                                             !.points = PathLength - 1 ] ]
          /\ dispatched' = Append(dispatched, m)
     ELSE /\ moves' = [ moves EXCEPT ![m] = [ request EXCEPT !.pc = "moving", !.legs = 0,
                                                             !.points = PathLength ] ]
          /\ UNCHANGED dispatched

\* the request is refused: moveToPosition returns false (line 82-85),
\* moveMouseTo throws (part_003 line 199-201)
Refuse(m, request) ==
  /\ moves' = [ moves EXCEPT ![m] = [ request EXCEPT !.pc = "rejected" ] ]
  /\ UNCHANGED << isMoving, dispatched >>

\* moveToPosition / moveMouseTo is called.  NaturalMouseEngine checks the
\* position before it waits, HumanSimulator after.
MoveToPosition(m, valid, force, overshoot) ==
  /\ moves[m].pc = "idle"
  /\ \A n \in 1..(m - 1) : moves[n].pc # "idle"
  /\ LET request == [ NoMove EXCEPT !.force = force, !.valid = valid ]
     IN IF implementation = NaturalMouseEngine /\ ~valid
        THEN Refuse(m, request)
        ELSE IF Defers(force)
        THEN /\ moves' = [ moves EXCEPT ![m] = [ request EXCEPT !.pc = "waiting", !.waited = TRUE ] ]
             /\ UNCHANGED << isMoving, dispatched >>
        ELSE IF ~valid
        THEN Refuse(m, request)
        ELSE Begin(m, request, overshoot)
  /\ UNCHANGED << implementation, hidden >>
  /\ UNCHANGED nonMouseVars

\* waitForMovementComplete finds the flag clear.  Its return and the
\* assignment of line 90 (part_003 line 203) run in the turn of the timer
\* that woke it: no other callback runs in between.
WaitForMovementComplete(m, overshoot) ==
  /\ moves[m].pc = "waiting"
  /\ ~isMoving
  /\ IF ~moves[m].valid
     THEN Refuse(m, moves[m])
     ELSE Begin(m, moves[m], overshoot)
  /\ UNCHANGED << implementation, hidden >>
  /\ UNCHANGED nonMouseVars

\* the callback of setInterval in startIdleMovements, when it moves the
\* cursor: performIdleMovement clamps its target to the window
PerformIdleMovement(m, overshoot) ==
  /\ implementation = NaturalMouseEngine
  /\ ~isMoving
  /\ moves[m].pc = "idle"
  /\ \A n \in 1..(m - 1) : moves[n].pc # "idle"
  /\ Begin(m, [ NoMove EXCEPT !.idle = TRUE ], overshoot)
  /\ UNCHANGED << implementation, hidden >>
  /\ UNCHANGED nonMouseVars

\* the next point of the path is dispatched: executePath after a sleep, with
\* the end of moveToPosition after the last point of the last leg; animate on
\* an animation frame
DispatchPoint(m) ==
  /\ moves[m].pc = "moving"
  /\ moves[m].points > 0
  /\ dispatched' = Append(dispatched, m)
  /\ IF implementation = NaturalMouseEngine /\ moves[m].points = 1
     THEN IF moves[m].legs > 0
          THEN /\ moves' = [ moves EXCEPT ![m].pc = "pausing", ![m].points = 0 ]
               /\ UNCHANGED isMoving
          ELSE /\ isMoving' = FALSE
               /\ moves' = [ moves EXCEPT ![m].pc = "done", ![m].points = 0 ]
     ELSE /\ moves' = [ moves EXCEPT ![m].points = @ - 1 ]
          /\ UNCHANGED isMoving
  /\ UNCHANGED << implementation, hidden >>
  /\ UNCHANGED nonMouseVars

\* moveWithOvershoot: the sleep between the two legs ends and the second leg
\* dispatches its first point
OvershootPauseEnds(m) ==
  /\ moves[m].pc = "pausing"
  /\ moves' = [ moves EXCEPT ![m].pc = "moving", ![m].legs = 0, ![m].points = PathLength - 1 ]
  /\ dispatched' = Append(dispatched, m)
  /\ UNCHANGED << implementation, isMoving, hidden >>
  /\ UNCHANGED nonMouseVars

\* animate finds the path exhausted and resolves: moveMouseTo ends
AnimationComplete(m) ==
  /\ implementation = HumanSimulator
  /\ moves[m].pc = "moving"
  /\ moves[m].points = 0
  /\ MoveEnds(m)
  /\ UNCHANGED << implementation, hidden, dispatched >>
  /\ UNCHANGED nonMouseVars

\* visibilitychange: the handler of setupGlobalListeners in HumanSimulator;
\* NaturalMouseEngine has no handler
VisibilityChange ==
  /\ hidden' = ~hidden
  /\ isMoving' = IF implementation = HumanSimulator /\ hidden' THEN FALSE ELSE isMoving
  /\ UNCHANGED << implementation, moves, dispatched >>
  /\ UNCHANGED nonMouseVars

-----------------------------------------------------------------------------
(* The bounded waits of the scenario engine.  Each one is a loop            *)
(*   while (Date.now() - startTime < timeout) { test; await sleep }         *)
(* followed by what the function does when the loop runs out.               *)

\* the timeouts and the sleeps of the loops, in milliseconds
NavigationTimeout == 10000
PageTypeTimeout == 15000
ContentChangeTimeout == 5000
ConditionTimeout == 10000
StepTimeout == 30000
PollSleep == 100
PageTypeSleep == 500
RetryInterval == 500

WaitKinds ==
  { "waitForNavigation", "waitForPageType", "waitForContentChange", "waitForCondition",
    "findElement" }

WaitTimeout(kind) ==
  CASE kind = "waitForNavigation" -> NavigationTimeout
    [] kind = "waitForPageType" -> PageTypeTimeout
    [] kind = "waitForContentChange" -> ContentChangeTimeout
    [] kind = "waitForCondition" -> ConditionTimeout
    [] kind = "findElement" -> StepTimeout

WaitSleep(kind) ==
  CASE kind = "waitForPageType" -> PageTypeSleep
    [] kind = "findElement" -> RetryInterval
    [] OTHER -> PollSleep

\* what the function does once its loop has run out: waitForPageType
\* throws, waitForNavigation and waitForContentChange fall off their end,
\* waitForCondition returns false (handleWait drops the value), and
\* findElement throws on the null that waitForElement returns
AfterTimeout(kind) ==
  CASE kind = "waitForPageType" -> [ outcome |-> "thrown", error |-> "Timeout waiting for page type" ]
    [] kind = "findElement" -> [ outcome |-> "thrown", error |-> "Element not found" ]
    [] OTHER -> [ outcome |-> "returned", error |-> "" ]

NoWait == [ kind |-> "", elapsed |-> 0, outcome |-> "none", met |-> FALSE, error |-> "" ]

\* a step calls one of the waits
StartWait(kind) ==
  /\ wait.outcome # "polling"
  /\ wait' = [ NoWait EXCEPT !.kind = kind, !.outcome = "polling" ]
  /\ UNCHANGED nonWaitVars

\* the test of the loop body succeeds: the awaited condition has become true
ConditionMet ==
  /\ wait.outcome = "polling"
  /\ wait.elapsed < WaitTimeout(wait.kind)
  /\ wait' = [ wait EXCEPT !.outcome = "returned", !.met = TRUE ]
  /\ UNCHANGED nonWaitVars

\* the test fails and the loop sleeps
PollAgain ==
  /\ wait.outcome = "polling"
  /\ wait.elapsed < WaitTimeout(wait.kind)
  /\ wait' = [ wait EXCEPT !.elapsed = @ + WaitSleep(wait.kind) ]
  /\ UNCHANGED nonWaitVars

\* the loop condition fails: the timeout is reached
TimeoutReached ==
  /\ wait.outcome = "polling"
  /\ ~(wait.elapsed < WaitTimeout(wait.kind))
  /\ wait' = [ wait EXCEPT !.outcome = AfterTimeout(wait.kind).outcome,
                           !.error = AfterTimeout(wait.kind).error ]
  /\ UNCHANGED nonWaitVars

-----------------------------------------------------------------------------
(* combineDetectionResults on its own, over every combination of what the   *)
(* four signals can report                                                   *)

\* the page types the signals of the model report, and a failed signal
SignalOutcomes == { "unknown", "product", "search", "throws" }

\* detectByUrlPattern is synchronous and does not fail
SignalCombinations ==
  { Document(url, dom, content, meta) :
      url \in SignalOutcomes \ {"throws"}, dom \in SignalOutcomes,
      content \in SignalOutcomes, meta \in SignalOutcomes }

NoFusion ==
  [ applied |-> FALSE, document |-> Document("unknown", "unknown", "unknown", "unknown"),
    type |-> "unknown", confidence |-> 0 ]

\* performDetection lines 126-139: the results of the signals are combined
Combine(document) ==
  /\ LET fused == CombineDetectionResults(DetectionResults(document))
     IN fusion' = [ applied |-> TRUE, document |-> document,
                    type |-> fused.type, confidence |-> fused.confidence ]
  /\ UNCHANGED nonFusionVars

-----------------------------------------------------------------------------
(* cacheDetection on its own, applied to caches of every size up to the     *)
(* limit                                                                     *)

\* the time between two detections that filled the cache, in milliseconds
CacheGap == 500

\* the URL of the k-th page visited
PageUrl(k) == "https://www.speedwaymotors.com/p/" \o ToString(k)

\* the snapshot cached for a page
PageSnapshot(k) == Snapshot(PageUrl(k), Document("product", "product", "unknown", "unknown"), {})

\* how the detections that filled a cache were spread in time: all within
\* one millisecond, one every CacheGap, or one every CacheGap with the first
\* page detected again at the end
FillPatterns == { "together", "spaced", "refreshed" }

\* Date.now() at the last detection that filled a cache of n pages
LastFill(n, pattern) ==
  IF pattern = "together" \/ n = 0 THEN 0 ELSE (n - 1) * CacheGap

\* the cache after n pages were detected one after the other
FilledCache(n, pattern) ==
  [ u \in { PageUrl(k) : k \in 1..n } |->
      LET k == CHOOSE k \in 1..n : PageUrl(k) = u
      IN [ result |-> PageSnapshot(k),
           timestamp |-> IF pattern = "together" THEN 0
                         ELSE IF pattern = "refreshed" /\ k = 1 THEN LastFill(n, pattern)
                         ELSE (k - 1) * CacheGap,
           inserted |-> k ] ]

\* the time that passed between the last fill and the call
IdleTimes == { 0, CacheGap, CacheTimeout \div 2, CacheTimeout + CacheGap }

NoCacheRun ==
  [ applied |-> FALSE, before |-> FilledCache(0, "together"), url |-> "", t |-> 0,
    after |-> FilledCache(0, "together") ]

\* a call of cacheDetection that is about to be made: page k, detected idle
\* milliseconds after the cache was filled
CacheCall(n, pattern, k, idle) ==
  [ applied |-> FALSE, before |-> FilledCache(n, pattern), url |-> PageUrl(k),
    t |-> LastFill(n, pattern) + idle, after |-> FilledCache(n, pattern) ]

\* the page is the first one again, or a new one
CacheCalls ==
  UNION { { CacheCall(n, pattern, k, idle) : pattern \in FillPatterns, k \in {1, n + 1},
                                             idle \in IdleTimes } : n \in 0..CacheLimit }

\* the number of the page with this URL
PageOf(url) == CHOOSE k \in 1..(CacheLimit + 1) : PageUrl(k) = url

\* detectCurrentPage line 84: the snapshot of the page is cached
ApplyCacheDetection ==
  /\ ~cacheRun.applied
  /\ cacheRun.url # ""
  /\ cacheRun' = [ cacheRun EXCEPT
                     !.applied = TRUE,
                     !.after = CacheDetection(cacheRun.before, cacheRun.url,
                                              PageSnapshot(PageOf(cacheRun.url)), cacheRun.t) ]
  /\ UNCHANGED nonCacheVars

-----------------------------------------------------------------------------
(* The passes that the page starts itself: popstate, pushState,             *)
(* replaceState, a significant DOM mutation and the load events call        *)
(* debouncedDetection, whose timer calls performDetection directly.         *)

NoAutoDetection == [ pc |-> "idle", url |-> "" ]

\* debounce lines 1508-1511: the timer of debouncedDetection fires and
\* performDetection starts, reading the URL (line 109)
DebouncedDetectionStarts ==
  /\ autoDetection.pc = "idle"
  /\ autoDetection' = [ pc |-> "detecting", url |-> href ]
  /\ lastCall' = 0
  /\ UNCHANGED << href, now, isDetecting, detectionQueue, detectionCache, currentPage, calls >>
  /\ UNCHANGED nonDetectorAutoVars

\* that performDetection returns: this.currentPage is set (line 148) and
\* nothing else, the caller being the timer
DebouncedDetectionSettles(document, elements) ==
  /\ autoDetection.pc = "detecting"
  /\ currentPage' = Snapshot(autoDetection.url, document, elements)
  /\ autoDetection' = NoAutoDetection
  /\ lastCall' = 0
  /\ UNCHANGED << href, now, isDetecting, detectionQueue, detectionCache, calls >>
  /\ UNCHANGED nonDetectorAutoVars

-----------------------------------------------------------------------------
(* The re-detection triggers: every one of them ends in a call of the       *)
(* debounced performDetection.                                               *)

\* the step of the clock, the time the model follows and the triggers it
\* lets happen
ClockStep == 500
ClockSpan == 4000
MaxTriggers == 3

\* constructor line 13, startDomObserver, setupPageLoadMonitoring
DebounceDelay == 1000
ThrottleDelay == 2000
LoadDelay == 500

\* Date.now() when the detector is built: lastChange, which starts at 0, is
\* further back than throttleDelay
StartClock == ThrottleDelay

\* debounce lines 1512-1513: the pending timeout is cleared and a new one set
CallDebounced == debounceTimer' = clock + DebounceDelay

\* a trigger happens
Triggered ==
  /\ Len(triggers) < MaxTriggers
  /\ triggers' = Append(triggers, clock)

\* popstate, pushState or replaceState
HistoryChange ==
  /\ Triggered
  /\ CallDebounced
  /\ UNCHANGED << clock, loadTimers, lastChange, passes >>
  /\ UNCHANGED nonDebounceVars

\* the MutationObserver reports added nodes that make a significant change
SignificantMutation ==
  /\ Triggered
  /\ IF clock - lastChange < ThrottleDelay
     THEN UNCHANGED << debounceTimer, lastChange >>
     ELSE /\ lastChange' = clock
          /\ CallDebounced
  /\ UNCHANGED << clock, loadTimers, passes >>
  /\ UNCHANGED nonDebounceVars

\* load or DOMContentLoaded
PageLoad ==
  /\ Triggered
  /\ loadTimers' = loadTimers \cup { clock + LoadDelay }
  /\ UNCHANGED << clock, debounceTimer, lastChange, passes >>
  /\ UNCHANGED nonDebounceVars

\* the timer of a load event fires
LoadTimerFires(t) ==
  /\ t \in loadTimers
  /\ t <= clock
  /\ loadTimers' = loadTimers \ {t}
  /\ CallDebounced
  /\ UNCHANGED << clock, lastChange, triggers, passes >>
  /\ UNCHANGED nonDebounceVars

\* debounce lines 1508-1511: the timeout fires and calls performDetection
DebounceTimerFires ==
  /\ debounceTimer # 0
  /\ debounceTimer <= clock
  /\ debounceTimer' = 0
  /\ passes' = Append(passes, clock)
  /\ UNCHANGED << clock, loadTimers, lastChange, triggers >>
  /\ UNCHANGED nonDebounceVars

\* time passes, once the timers that are due have fired
ClockAdvances ==
  /\ clock + ClockStep <= StartClock + ClockSpan
  /\ ~(debounceTimer # 0 /\ debounceTimer <= clock)
  /\ \A t \in loadTimers : t > clock
  /\ clock' = clock + ClockStep
  /\ UNCHANGED << debounceTimer, loadTimers, lastChange, triggers, passes >>
  /\ UNCHANGED nonDebounceVars

-----------------------------------------------------------------------------
(* The log functions on their own, called any number of times in any order  *)

\* entries above the cap that the model follows
MaxOverflow == 3

\* logInfo or logSuccess is called
LogInfoCalled ==
  /\ Commit(LogInfo(Engine))
  /\ UNCHANGED << options, scenarios, lastOp, ctl >>
  /\ UNCHANGED nonRunnerVars

\* logWarn is called
LogWarnCalled ==
  /\ executionLog < LogCap + MaxOverflow
  /\ Commit(LogWarn(Engine))
  /\ UNCHANGED << options, scenarios, lastOp, ctl >>
  /\ UNCHANGED nonRunnerVars

\* logError is called
LogErrorCalled ==
  /\ executionLog < LogCap + MaxOverflow
  /\ Commit(LogError(Engine))
  /\ UNCHANGED << options, scenarios, lastOp, ctl >>
  /\ UNCHANGED nonRunnerVars

-----------------------------------------------------------------------------
(* The personas: NaturalMouseEngine.movementProfile (src/utils/mouse.js)  *)
(* and TimingEngine.userProfile (src/unnamed/part_006). Fractions are in  *)
(* hundredths, session times in minutes, fatigue in thousandths.          *)

MaxPersonaOps == 3
TimeStep == 10
MaxSession == 20
HistoryCap == 100
HistoryKeep == 50
FatigueSlope == 800
FatigueFull == 1000

\* the table of generateMovementProfile, lines 19-41
MovementProfiles ==
  [ precise |-> [ type |-> "precise", baseSpeed |-> 80, curvature |-> 10,
                  overshootChance |-> 5, tremor |-> 2 ],
    casual  |-> [ type |-> "casual", baseSpeed |-> 120, curvature |-> 25,
                  overshootChance |-> 15, tremor |-> 5 ],
    quick   |-> [ type |-> "quick", baseSpeed |-> 180, curvature |-> 15,
                  overshootChance |-> 25, tremor |-> 3 ] ]

\* generateMovementProfile, lines 43-51: one row of the table, chosen at
\* random, with the session counters
GenerateMovementProfile(selectedType) ==
  [ type |-> MovementProfiles[selectedType].type,
    baseSpeed |-> MovementProfiles[selectedType].baseSpeed,
    curvature |-> MovementProfiles[selectedType].curvature,
    overshootChance |-> MovementProfiles[selectedType].overshootChance,
    tremor |-> MovementProfiles[selectedType].tremor,
    sessionStart |-> 0,
    totalDistance |-> 0,
    movementCount |-> 0 ]

\* the table of generateUserProfile, lines 21-40: each field is drawn from a
\* range, of which the two ends are kept
UserProfileRanges ==
  [ casual     |-> [ readingWPM |-> {120, 200}, patience |-> {40, 80},
                     scrollSpeed |-> {250, 400}, sessionLength |-> {5, 15} ],
    researcher |-> [ readingWPM |-> {180, 280}, patience |-> {100, 180},
                     scrollSpeed |-> {100, 200}, sessionLength |-> {15, 40} ],
    shopper    |-> [ readingWPM |-> {160, 240}, patience |-> {70, 120},
                     scrollSpeed |-> {180, 300}, sessionLength |-> {8, 25} ] ]

\* generateUserProfile, lines 42-49: the profiles that can be generated
GenerateUserProfile ==
  UNION { [ type : {selectedType},
            readingWPM : UserProfileRanges[selectedType].readingWPM,
            patience : UserProfileRanges[selectedType].patience,
            scrollSpeed : UserProfileRanges[selectedType].scrollSpeed,
            sessionLength : UserProfileRanges[selectedType].sessionLength,
            startTime : {0} ] : selectedType \in DOMAIN UserProfileRanges }

\* the distances of the recorded movements
Distances == {0, 250}

\* the action types of getActionDelay: one without a persona multiplier and
\* the two with one
ActionTypes == {"click", "scroll", "reading"}

\* push on a history and the cut of lines 400-402 (mouse.js) and 122-124
\* (part_006)
Pushed(length) ==
  IF length + 1 > HistoryCap THEN HistoryKeep ELSE length + 1

\* a variant of lines 397-398 in which every movement tires the hand
Recorded_Tiring(profile, distance) ==
  [ profile EXCEPT !.movementCount = @ + 1,
                   !.totalDistance = @ + distance,
                   !.baseSpeed = @ - 1 ]

\* recordMovement lines 397-398
Recorded(profile, distance) ==
  [ profile EXCEPT !.movementCount = @ + 1,
                   !.totalDistance = @ + distance ]

\* nothing has read the personas yet
NoRead == [ op |-> "", type |-> "", values |-> << >> ]

Read(op, type, values) == [ op |-> op, type |-> type, values |-> values ]

\* one more operation is called
PersonaOp ==
  /\ personaOps < MaxPersonaOps
  /\ personaOps' = personaOps + 1
  /\ UNCHANGED sessionDuration
  /\ UNCHANGED nonPersonaVars

\* recordMovement(x, y), called by moveToPosition (line 102)
RecordMovement(distance) ==
  /\ PersonaOp
  /\ mouseHistory' = Pushed(mouseHistory)
  /\ movementProfile' = Recorded(movementProfile, distance)
  /\ UNCHANGED << userProfile, fatigueLevel, actionHistory, lastRead >>

\* generateControlPoint, line 195
GenerateControlPoint ==
  /\ PersonaOp
  /\ lastRead' = Read("generateControlPoint", "", << movementProfile.curvature >>)
  /\ UNCHANGED << movementProfile, mouseHistory, userProfile, fatigueLevel, actionHistory >>

\* addTremor, line 221
AddTremor ==
  /\ PersonaOp
  /\ lastRead' = Read("addTremor", "", << movementProfile.tremor >>)
  /\ UNCHANGED << movementProfile, mouseHistory, userProfile, fatigueLevel, actionHistory >>

\* shouldOvershoot, line 288
ShouldOvershoot ==
  /\ PersonaOp
  /\ lastRead' = Read("shouldOvershoot", "", << movementProfile.overshootChance >>)
  /\ UNCHANGED << movementProfile, mouseHistory, userProfile, fatigueLevel, actionHistory >>

\* calculateMovementDuration, line 348
CalculateMovementDuration ==
  /\ PersonaOp
  /\ lastRead' = Read("calculateMovementDuration", "", << movementProfile.baseSpeed >>)
  /\ UNCHANGED << movementProfile, mouseHistory, userProfile, fatigueLevel, actionHistory >>

\* getMovementStats, lines 413-422
GetMovementStats ==
  /\ PersonaOp
  /\ lastRead' = Read("getMovementStats", movementProfile.type,
                      << movementProfile.movementCount, movementProfile.totalDistance >>)
  /\ UNCHANGED << movementProfile, mouseHistory, userProfile, fatigueLevel, actionHistory >>

\* calculateReadingTime, lines 66-68
CalculateReadingTime ==
  /\ PersonaOp
  /\ lastRead' = Read("calculateReadingTime", "",
                      << userProfile.readingWPM, userProfile.patience >>)
  /\ UNCHANGED << movementProfile, mouseHistory, userProfile, fatigueLevel, actionHistory >>

\* the fatigue of getSessionMultiplier, lines 104-107
Fatigue ==
  LET level == (FatigueSlope * sessionDuration) \div userProfile.sessionLength
  IN IF level > FatigueFull THEN FatigueFull ELSE level

\* getSessionMultiplier()
GetSessionMultiplier ==
  /\ PersonaOp
  /\ fatigueLevel' = Fatigue
  /\ lastRead' = Read("getSessionMultiplier", "", << userProfile.sessionLength >>)
  /\ UNCHANGED << movementProfile, mouseHistory, userProfile, actionHistory >>

\* getActionDelay(actionType), lines 76-101: the persona multiplier, the
\* session multiplier, then recordAction
GetActionDelay(actionType) ==
  /\ PersonaOp
  /\ fatigueLevel' = Fatigue
  /\ actionHistory' = Pushed(actionHistory)
  /\ lastRead' = Read("getActionDelay", "",
                      IF actionType = "scroll"
                      THEN << userProfile.scrollSpeed, userProfile.sessionLength >>
                      ELSE IF actionType = "reading"
                      THEN << userProfile.patience, userProfile.sessionLength >>
                      ELSE << userProfile.sessionLength >>)
  /\ UNCHANGED << movementProfile, mouseHistory, userProfile >>

\* recordAction(type, duration), lines 117-125
RecordAction ==
  /\ PersonaOp
  /\ actionHistory' = Pushed(actionHistory)
  /\ UNCHANGED << movementProfile, mouseHistory, userProfile, fatigueLevel, lastRead >>

\* getStats, lines 133-141
GetStats ==
  /\ PersonaOp
  /\ lastRead' = Read("getStats", userProfile.type,
                      << userProfile.readingWPM, actionHistory, fatigueLevel >>)
  /\ UNCHANGED << movementProfile, mouseHistory, userProfile, fatigueLevel, actionHistory >>

\* the session goes on
SessionGoesOn ==
  /\ sessionDuration < MaxSession
  /\ sessionDuration' = sessionDuration + TimeStep
  /\ UNCHANGED << movementProfile, mouseHistory, userProfile, fatigueLevel,
                  actionHistory, lastRead, personaOps >>
  /\ UNCHANGED nonPersonaVars

-----------------------------------------------------------------------------
(* humanType (src/content/human-simulator.js lines 198-245): the text is  *)
(* typed into the field one character at a time, with mistakes that are   *)
(* corrected. A text is a sequence of characters; rates are in            *)
(* thousandths.                                                           *)

MaxText == 2
Humanness == 800
DefaultMistakeFactor == 20
Certain == 1000

\* keyboard of getRandomWrongChar, line 474
Keyboard ==
  << "q", "w", "e", "r", "t", "y", "u", "i", "o", "p", "a", "s", "d", "f", "g",
     "h", "j", "k", "l", "z", "x", "c", "v", "b", "n", "m" >>

\* the characters of the texts: the first, a middle and the last key of the
\* keyboard, an upper-case letter and a digit
Chars == {"q", "a", "m", "A", "1"}

\* toLowerCase on Chars
ToLowerCase(char) == IF char = "A" THEN "a" ELSE char

\* the texts typed
Texts == UNION { [ 1..n -> Chars ] : n \in 1..MaxText }

\* options.mistakeRate: absent, or 1.0
MistakeRates == {0, Certain}

\* config.mistakeRate, line 202
MistakeRate(option) ==
  IF option # 0 THEN option ELSE (DefaultMistakeFactor * Humanness) \div 1000

\* Math.random() < config.mistakeRate, line 225
Rolls(rate) ==
  IF rate >= Certain THEN {TRUE}
  ELSE IF rate <= 0 THEN {FALSE}
  ELSE {TRUE, FALSE}

\* keyboard.indexOf, 0 when absent
IndexOf(char) ==
  IF \E k \in DOMAIN Keyboard : Keyboard[k] = char
  THEN CHOOSE k \in DOMAIN Keyboard : Keyboard[k] = char
  ELSE 0

\* getRandomWrongChar lines 473-487: the characters it can return
GetRandomWrongChar(correctChar) ==
  LET index == IndexOf(ToLowerCase(correctChar))
  IN IF index = 0 THEN {correctChar}
     ELSE { Keyboard[k] : k \in {index - 1, index + 1} \cap DOMAIN Keyboard }

\* typeCharacter lines 248-269, on the field
TypeCharacter(field, char) ==
  LET startPos == OrElse(field.selectionStart, Len(field.value))
      endPos == OrElse(field.selectionEnd, Len(field.value))
  IN [ value |-> SubSeq(field.value, 1, startPos) \o << char >>
                   \o SubSeq(field.value, endPos + 1, Len(field.value)),
       selectionStart |-> startPos + 1,
       selectionEnd |-> startPos + 1 ]

\* simulateBackspace lines 284-304, on the field
SimulateBackspace(field) ==
  LET cursorPos == OrElse(field.selectionStart, Len(field.value))
  IN IF Len(field.value) = 0 \/ cursorPos <= 0 THEN field
     ELSE [ value |-> SubSeq(field.value, 1, cursorPos - 1)
                        \o SubSeq(field.value, cursorPos + 1, Len(field.value)),
            selectionStart |-> cursorPos - 1,
            selectionEnd |-> cursorPos - 1 ]

\* the character that simulateBackspace removes, "" if none
Removed(field) ==
  LET cursorPos == OrElse(field.selectionStart, Len(field.value))
  IN IF Len(field.value) = 0 \/ cursorPos <= 0 THEN "" ELSE field.value[cursorPos]

\* an edit of the field, made for character at of the text
Edit(kind, char, at) == [ kind |-> kind, char |-> char, at |-> at ]

\* the field after the focus click and clearText (lines 209-216)
EmptyField == [ value |-> << >>, selectionStart |-> 0, selectionEnd |-> 0 ]

\* no call of humanType
NoTyping ==
  [ pc |-> "idle", text |-> << >>, mistakeRate |-> 0, i |-> 0, field |-> EmptyField,
    currentText |-> << >>, edits |-> << >>, rolled |-> << >>, wrongChar |-> "" ]

\* humanType(element, text, options) up to the loop of line 221
HumanType(text, option) ==
  [ NoTyping EXCEPT !.pc = "loop", !.text = text, !.mistakeRate = MistakeRate(option) ]

\* one iteration of the loop, lines 221-237: the character at i is typed, or
\* the mistake of line 226 starts with the wrong character
TypeNext(roll, wrongChar) ==
  /\ typing.pc = "loop"
  /\ typing.i < Len(typing.text)
  /\ roll \in Rolls(typing.mistakeRate)
  /\ LET char == typing.text[typing.i + 1]
     IN IF roll /\ typing.i > 0
        THEN /\ wrongChar \in GetRandomWrongChar(char)
             /\ typing' = [ typing EXCEPT
                              !.pc = "realize",
                              !.field = TypeCharacter(@, wrongChar),
                              !.edits = Append(@, Edit("insert", wrongChar, typing.i + 1)),
                              !.rolled = Append(@, roll),
                              !.wrongChar = wrongChar ]
        ELSE /\ wrongChar = ""
             /\ typing' = [ typing EXCEPT
                              !.field = TypeCharacter(@, char),
                              !.edits = Append(@, Edit("insert", char, typing.i + 1)),
                              !.rolled = Append(@, roll),
                              !.currentText = Append(@, char),
                              !.i = @ + 1 ]
  /\ UNCHANGED nonTypingVars

\* simulateTypingMistake lines 276-279: the mistake is noticed and erased
RealizeMistake ==
  /\ typing.pc = "realize"
  /\ typing' = [ typing EXCEPT
                   !.pc = "corrected",
                   !.field = SimulateBackspace(@),
                   !.edits = Append(@, Edit("backspace", Removed(typing.field), typing.i + 1)) ]
  /\ UNCHANGED nonTypingVars

\* simulateTypingMistake lines 280-282 and the continue of line 227
TypeCorrect ==
  /\ typing.pc = "corrected"
  /\ LET char == typing.text[typing.i + 1]
     IN typing' = [ typing EXCEPT
                      !.pc = "loop",
                      !.field = TypeCharacter(@, char),
                      !.edits = Append(@, Edit("insert", char, typing.i + 1)),
                      !.wrongChar = "",
                      !.i = @ + 1 ]
  /\ UNCHANGED nonTypingVars

\* the end of the loop: lines 239-244
TypingEnds ==
  /\ typing.pc = "loop"
  /\ typing.i = Len(typing.text)
  /\ typing' = [ typing EXCEPT !.pc = "done" ]
  /\ UNCHANGED nonTypingVars

-----------------------------------------------------------------------------
(* Scenario objects by reference.  this.scenarios[name] and                 *)
(* this.currentScenario are references to objects; prepareScenario yields   *)
(* a new object, and handleStepError and setParameter write through         *)
(* this.currentScenario.                                                    *)

MaxRefRuns == 2

\* the scenarios registered: a built-in one and one added by addScenario
Registered == << BuiltInScenarios.realistic_browsing, UserScenarios.user_flow >>

\* this.scenarios: the reference held under each name
ScenarioRefs == [ n \in {"realistic_browsing", "user_flow"} |->
                    IF n = "realistic_browsing" THEN 1 ELSE 2 ]

\* getScenario(name), lines 825-827
GetScenario(name) == objects[ScenarioRefs[name]]

\* the parameters of the runs: none, or the token of user_flow
RunParameters == { NoParameters, [ p \in {"token"} |-> "supplied" ] }

\* the values written by setParameter
StoredValues == {"extracted"}

\* a variant of line 688 without the clone: the definition itself is prepared
Cloned_InPlace(heap, ref, clone) ==
  [ heap |-> [ heap EXCEPT ![ref] = clone @@ heap[ref] ], ref |-> ref ]

\* line 688, JSON.parse(JSON.stringify(scenario)): the prepared scenario is a
\* new object
Cloned(heap, ref, clone) ==
  [ heap |-> Append(heap, clone), ref |-> Len(heap) + 1 ]

\* runScenario lines 63-69, when it does not throw
RunStarts(name, parameters) ==
  /\ currentRef = 0
  /\ refRuns < MaxRefRuns
  /\ ~PrepareThrows(GetScenario(name), parameters)
  /\ LET made == Cloned(objects, ScenarioRefs[name],
                        PrepareScenario(GetScenario(name), parameters))
     IN /\ objects' = made.heap
        /\ currentRef' = made.ref
  /\ refRuns' = refRuns + 1
  /\ UNCHANGED nonObjectVars

\* handleStepError lines 657-662 for step i of the current scenario: the
\* retry is counted on the step
RetryCounted(i, retryAttempts) ==
  /\ currentRef # 0
  /\ i \in DOMAIN objects[currentRef].steps
  /\ LET step == objects[currentRef].steps[i]
         currentRetries == OrElse(step._retryCount, 0)
     IN /\ MayRetry(currentRetries, MaxRetries(step, retryAttempts))
        /\ objects' = [ objects EXCEPT ![currentRef].steps[i]._retryCount = currentRetries + 1 ]
  /\ UNCHANGED << currentRef, refRuns >>
  /\ UNCHANGED nonObjectVars

\* setParameter(name, value), lines 680-685, during a run
ParameterStored(name, value) ==
  /\ currentRef # 0
  /\ LET object == objects[currentRef]
         resolved0 == IF "resolvedParameters" \in DOMAIN object
                      THEN object.resolvedParameters ELSE NoParameters
         written == [ p \in DOMAIN resolved0 \cup {name} |->
                        IF p = name THEN value ELSE resolved0[p] ]
     IN /\ resolved0 # written
        /\ objects' = [ objects EXCEPT ![currentRef] =
                          [ f \in DOMAIN object \cup {"resolvedParameters"} |->
                              IF f = "resolvedParameters" THEN written ELSE object[f] ] ]
  /\ UNCHANGED << currentRef, refRuns >>
  /\ UNCHANGED nonObjectVars

\* the finally block of runScenario, lines 94-97: the run ends, by
\* completion, error or after stop()
RunEnds ==
  /\ currentRef # 0
  /\ currentRef' = 0
  /\ UNCHANGED << objects, refRuns >>
  /\ UNCHANGED nonObjectVars

-----------------------------------------------------------------------------
(* The path of a move: generateMovementPath, addTremor and executePath     *)
(* (src/utils/mouse.js).  Coordinates and distances are in hundredths of a *)
(* pixel; Math.random() is drawn from the ends and the middle of its range.*)

Px == 100
StraightBelow == 20
ComplexAbove == 200
StraightSpacing == 15
CurvedSpacing == 12
ComplexSpacing == 10
StraightSteps == 3
CurvedSteps == 15
ComplexSteps == 20
SqrtBound == 65536

Point(x, y) == [ x |-> x, y |-> y ]

Larger(a, b) == IF a > b THEN a ELSE b

RECURSIVE SqrtBetween(_, _, _)
\* the largest k in lo..hi with k * k <= n
SqrtBetween(n, lo, hi) ==
  IF lo = hi THEN lo
  ELSE LET mid == (lo + hi + 1) \div 2
       IN IF mid <= 46340 /\ mid * mid <= n
          THEN SqrtBetween(n, mid, hi)
          ELSE SqrtBetween(n, lo, mid - 1)

\* calculateDistance, lines 341-345
CalculateDistance(point1, point2) ==
  LET dx == point2.x - point1.x
      dy == point2.y - point1.y
  IN SqrtBetween(dx * dx + dy * dy, 0, SqrtBound)

\* generateMovementPath, lines 132-142: the generator chosen
PathKind(distance) ==
  IF distance < StraightBelow * Px THEN "straight"
  ELSE IF distance > ComplexAbove * Px THEN "complex"
  ELSE "curved"

\* steps of lines 145, 162 and 178
PathSteps(kind, distance) ==
  IF kind = "straight" THEN Larger(StraightSteps, distance \div (StraightSpacing * Px))
  ELSE IF kind = "curved" THEN Larger(CurvedSteps, distance \div (CurvedSpacing * Px))
  ELSE Larger(ComplexSteps, distance \div (ComplexSpacing * Px))

\* the draws of generateControlPoint: the share of maxOffset, in hundredths,
\* with the direction as its sign
Bends == {-100, 50}

\* generateControlPoint, lines 193-218; position is in tenths
ControlPoint(start, end, position, curvature, bend) ==
  LET distance == CalculateDistance(start, end)
      dx == end.x - start.x
      dy == end.y - start.y
      finalOffset == (((distance * curvature) \div 100) * bend) \div 100
      midX == start.x + ((end.x - start.x) * position) \div 10
      midY == start.y + ((end.y - start.y) * position) \div 10
  IN IF distance > 0
     THEN Point(midX + ((0 - dy) * finalOffset) \div distance,
                midY + (dx * finalOffset) \div distance)
     ELSE Point(midX, midY)

\* a leg of a move: the arguments of the path generator and its draws
Leg(start, end, curvature, bends) ==
  LET distance == CalculateDistance(start, end)
      kind == PathKind(distance)
  IN [ start |-> start, end |-> end, kind |-> kind,
       steps |-> PathSteps(kind, distance),
       controls |->
         IF kind = "curved"
         THEN << ControlPoint(start, end, 5, curvature, bends[1]) >>
         ELSE IF kind = "complex"
         THEN << ControlPoint(start, end, 3, curvature, bends[1]),
                 ControlPoint(start, end, 7, curvature, bends[2]) >>
         ELSE << >> ]

\* one coordinate of the point at t = i / steps: lines 149-152 for a straight
\* path, quadraticBezier and cubicBezier for the others
Along(kind, s, i, p0, p1, p2, p3) ==
  IF kind = "straight" THEN p0 + ((p3 - p0) * i) \div s
  ELSE IF kind = "curved"
  THEN ((s - i) * (s - i) * p0 + 2 * (s - i) * i * p1 + i * i * p3) \div (s * s)
  ELSE ((s - i) * (s - i) * (s - i) * p0 + 3 * (s - i) * (s - i) * i * p1
          + 3 * (s - i) * i * i * p2 + i * i * i * p3) \div (s * s * s)

\* the point of the leg at index i, before its tremor
PointAt(leg, i) ==
  LET c1 == IF leg.kind = "straight" THEN leg.start ELSE leg.controls[1]
      c2 == IF leg.kind = "complex" THEN leg.controls[2] ELSE c1
  IN Point(Along(leg.kind, leg.steps, i, leg.start.x, c1.x, c2.x, leg.end.x),
           Along(leg.kind, leg.steps, i, leg.start.y, c1.y, c2.y, leg.end.y))

\* Math.random() - 0.5 in addTremor, doubled: -1, 0 or 1
TremorDraws == { Point(x, y) : x \in {-1, 0, 1}, y \in {-1, 0, 1} }

\* addTremor, lines 220-226: (Math.random() - 0.5) * tremor * 10
WithTremor(point, tremor, draw) ==
  Point(point.x + draw.x * tremor * 5, point.y + draw.y * tremor * 5)

\* where the cursor is when the move is requested
StartPosition == Point(100 * Px, 100 * Px)

\* the targets: the cursor position itself, and one target for each path
\* generator
Targets ==
  { StartPosition, Point(110 * Px, 100 * Px), Point(160 * Px, 100 * Px),
    Point(100 * Px, 350 * Px) }

\* shouldOvershoot and calculateOvershootPosition, lines 286-311: no
\* overshoot (0), or an overshoot by the least or the most of 5 + random * 25
\* pixels; the chance is 0 when the target is the cursor position
OvershootDraws(distance) == IF distance > 0 THEN {0, 5 * Px, 30 * Px} ELSE {0}

\* calculateOvershootPosition, lines 295-311
CalculateOvershootPosition(current, target, overshootDistance) ==
  LET distance == CalculateDistance(current, target)
  IN IF distance = 0 THEN target
     ELSE Point(target.x + ((target.x - current.x) * overshootDistance) \div distance,
                target.y + ((target.y - current.y) * overshootDistance) \div distance)

\* no move was requested
NoPath(type) ==
  [ pc |-> "idle", profile |-> type, start |-> StartPosition, target |-> StartPosition,
    currentPosition |-> StartPosition, leg |-> Leg(StartPosition, StartPosition, 0, << 50, 50 >>),
    bends |-> << 50, 50 >>, i |-> 0, legs |-> 0, dispatched |-> 0, sleeps |-> 0,
    lastPoint |-> StartPosition, result |-> FALSE ]

\* executePath lines 257-271 for the point at index i: the event, the cursor
\* position, and the sleep unless the point is the last
ExecutePoint(run, draw) ==
  LET point == WithTremor(PointAt(run.leg, run.i), MovementProfiles[run.profile].tremor, draw)
  IN [ run EXCEPT !.dispatched = @ + 1,
                  !.lastPoint = point,
                  !.currentPosition = point,
                  !.sleeps = IF run.i < run.leg.steps THEN @ + 1 ELSE @,
                  !.i = @ + 1 ]

\* moveDirectly lines 114-121, up to the first sleep of executePath
MoveDirectly(run, end, draw) ==
  ExecutePoint([ run EXCEPT !.leg = Leg(run.currentPosition, end,
                                        MovementProfiles[run.profile].curvature, run.bends),
                            !.i = 0 ], draw)

\* moveToPosition(targetX, targetY) on an engine that is not moving, lines
\* 79-101, up to the first sleep
MovePath(target, overshootDistance, bends, draw) ==
  /\ pathRun.pc = "idle"
  /\ overshootDistance \in OvershootDraws(CalculateDistance(pathRun.currentPosition, target))
  /\ LET run == [ pathRun EXCEPT !.pc = "moving", !.target = target, !.bends = bends,
                                 !.start = pathRun.currentPosition,
                                 !.legs = IF overshootDistance > 0 THEN 1 ELSE 0 ]
     IN pathRun' =
          IF overshootDistance > 0
          THEN MoveDirectly(run, CalculateOvershootPosition(run.currentPosition, target,
                                                            overshootDistance), draw)
          ELSE MoveDirectly(run, target, draw)
  /\ UNCHANGED nonPathVars

\* a sleep of executePath ends: the next point; after the last point of the
\* last leg moveToPosition returns true (lines 102-103)
PathStep(draw) ==
  /\ pathRun.pc = "moving"
  /\ pathRun.i <= pathRun.leg.steps
  /\ LET run == ExecutePoint(pathRun, draw)
     IN pathRun' =
          IF pathRun.i < pathRun.leg.steps THEN run
          ELSE IF pathRun.legs > 0 THEN [ run EXCEPT !.pc = "pausing" ]
          ELSE [ run EXCEPT !.pc = "done", !.result = TRUE ]
  /\ UNCHANGED nonPathVars

\* moveWithOvershoot lines 128-129: the pause ends and the leg to the target
\* starts
OvershootCorrected(draw) ==
  /\ pathRun.pc = "pausing"
  /\ pathRun' = MoveDirectly([ pathRun EXCEPT !.pc = "moving", !.legs = 0 ],
                             pathRun.target, draw)
  /\ UNCHANGED nonPathVars

-----------------------------------------------------------------------------
(* The settings update: PopupController.updateSetting sends the message,   *)
(* SpeedwayAutoBrowser.handleMessage applies it.  The listener is          *)
(* registered by init() after the scenario runner is created, so the       *)
(* runner exists whenever a message is handled.  Speeds and humanness are  *)
(* in thousandths.                                                         *)

MaxSettingsUpdates == 3

\* the defaults of loadSettings (part_001 lines 251-256, content.js lines
\* 41-48)
DefaultSettings ==
  [ mouseSpeed |-> 1000, typingSpeed |-> 1000, humanness |-> 800, debug |-> FALSE ]

\* the values a slider or the checkbox can give to a setting
SettingValues ==
  [ mouseSpeed |-> {500, 2000}, typingSpeed |-> {500, 2000}, humanness |-> {500, 1000},
    debug |-> {TRUE, FALSE} ]

\* the options of the human simulator that updateSettings writes
SimulatorOptions(settings) ==
  [ mouseSpeed |-> settings.mouseSpeed, typingSpeed |-> settings.typingSpeed,
    humanness |-> settings.humanness ]

\* { ...a, ...b }: the keys of b override those of a
Spread(a, b) == b @@ a

\* sendMessage line 235: the message { action, ...data }
Message(action, data) == Spread([ action |-> action ], data)

NoRequest == [ action |-> "none" ]

NoReply == [ state |-> "none", success |-> FALSE, error |-> "" ]

\* sendResponse({ success: true })
Success == [ state |-> "received", success |-> TRUE, error |-> "" ]

\* sendResponse({ error: error.message }), from the catch of handleMessage
Failure(message) == [ state |-> "received", success |-> FALSE, error |-> message ]

UndefinedError == "Cannot read properties of undefined"

\* request.settings, line 113: the empty record stands for undefined
RequestSettings(message) ==
  IF "settings" \in DOMAIN message THEN message.settings ELSE [ k \in {} |-> 0 ]

\* updateSetting(key, value), part_001 lines 482-490, with sendMessage up to
\* the call of chrome.tabs.sendMessage
UpdateSetting(key, value) ==
  /\ settingsRequest.action = "none"
  /\ settingsUpdates < MaxSettingsUpdates
  /\ value \in SettingValues[key]
  /\ popupSettings' = [ popupSettings EXCEPT ![key] = value ]
  /\ settingsRequest' = Message("updateSettings", popupSettings')
  /\ reply' = NoReply
  /\ settingsUpdates' = settingsUpdates + 1
  /\ UNCHANGED << contentSettings, humanSimOptions >>
  /\ UNCHANGED nonSettingsVars

\* handleMessage for 'updateSettings', content.js lines 112-115 and 139-162,
\* with the catch of lines 124-127.  Reading a property of undefined on line
\* 151 throws before humanSim.options is assigned.
HandleUpdateSettings ==
  /\ settingsRequest.action = "updateSettings"
  /\ LET newSettings == RequestSettings(settingsRequest)
     IN /\ contentSettings' = Spread(contentSettings, newSettings)
        /\ IF DOMAIN newSettings = {}
           THEN /\ reply' = Failure(UndefinedError)
                /\ UNCHANGED humanSimOptions
           ELSE /\ reply' = Success
                /\ humanSimOptions' = Spread(humanSimOptions, SimulatorOptions(newSettings))
  /\ settingsRequest' = NoRequest
  /\ UNCHANGED << popupSettings, settingsUpdates >>
  /\ UNCHANGED nonSettingsVars

-----------------------------------------------------------------------------
(* Clearing a field before typing: humanType with clearFirst on a field    *)
(* that holds content.  human-simulator.js clears with clearText; the      *)
(* humanType of part_003 clears with clearElementContent, by               *)
(* clearTextManually or by the select-all and Delete key events.           *)

MaxPrior == 3

\* the characters of the prior content
PriorChars == {"z", "9"}

\* the prior contents of the field
Priors == UNION { [ 1..n -> PriorChars ] : n \in 0..MaxPrior }

\* the ways of clearing
ClearModes == {"clearText", "clearTextManually", "shortcut"}

\* no call of humanType on a field with content
NoClearing ==
  [ pc |-> "idle", mode |-> "none", prior |-> << >>, text |-> << >>,
    field |-> EmptyField, i |-> 0, length |-> 0, at |-> 0 ]

\* setSelectionRange(0, value.length) and select(): the whole value is selected
SelectAll(field) ==
  [ field EXCEPT !.selectionStart = 0, !.selectionEnd = Len(field.value) ]

\* humanType up to the clearing (human-simulator.js lines 213-216, part_003
\* lines 478-481): a field without content is not cleared; clearText
\* (lines 546-548) and clearTextManually (lines 748-758) select the whole
\* value, and clearTextManually reads the length once
HumanTypeInto(mode, prior, caret, text) ==
  /\ clearing.pc = "idle"
  /\ LET field == [ value |-> prior, selectionStart |-> caret, selectionEnd |-> caret ]
     IN clearing' =
          [ NoClearing EXCEPT
              !.pc = IF prior = << >> THEN "type" ELSE "clear",
              !.mode = mode,
              !.prior = prior,
              !.text = text,
              !.field = IF prior = << >> \/ mode = "shortcut" THEN field
                        ELSE SelectAll(field),
              !.length = Len(prior) ]
  /\ UNCHANGED nonClearVars

\* clearText lines 551-554: the loop runs while i is below the present
\* length of the value
ClearText ==
  /\ clearing.pc = "clear"
  /\ clearing.mode = "clearText"
  /\ clearing' =
       IF clearing.i < Len(clearing.field.value)
       THEN [ clearing EXCEPT !.field = SimulateBackspace(@), !.i = @ + 1 ]
       ELSE [ clearing EXCEPT !.pc = "type" ]
  /\ UNCHANGED nonClearVars

\* clearTextManually lines 760-767: the loop runs currentValue.length times
ClearTextManually ==
  /\ clearing.pc = "clear"
  /\ clearing.mode = "clearTextManually"
  /\ clearing' =
       IF clearing.i < clearing.length
       THEN [ clearing EXCEPT !.field = SimulateBackspace(@), !.i = @ + 1 ]
       ELSE [ clearing EXCEPT !.pc = "type" ]
  /\ UNCHANGED nonClearVars

\* clearElementContent lines 536-540: simulateKeyCombo and simulateKeyPress
\* dispatch keyboard events made by the script (lines 562-578, 775-782,
\* 1069-1084), on which the page takes no default action: the value and the
\* selection stay
ClearByShortcut ==
  /\ clearing.pc = "clear"
  /\ clearing.mode = "shortcut"
  /\ clearing' = [ clearing EXCEPT !.pc = "type" ]
  /\ UNCHANGED nonClearVars

\* does the iteration for the character at i (from 0) make a mistake:
\* human-simulator.js line 225, part_003 line 591
MistakeAt(mode, roll, i) ==
  IF mode = "clearText" THEN roll /\ i > 0 ELSE roll

\* one iteration of the typing loop (human-simulator.js lines 221-237,
\* part_003 lines 587-601): the character, or a wrong one, a backspace and
\* the character
TypeAfterClear(roll, wrongChar) ==
  /\ clearing.pc = "type"
  /\ clearing.at < Len(clearing.text)
  /\ roll \in Rolls(MistakeRate(0))
  /\ LET char == clearing.text[clearing.at + 1]
     IN IF MistakeAt(clearing.mode, roll, clearing.at)
        THEN /\ wrongChar \in GetRandomWrongChar(char)
             /\ clearing' =
                  [ clearing EXCEPT
                      !.field = TypeCharacter(SimulateBackspace(TypeCharacter(@, wrongChar)), char),
                      !.at = @ + 1 ]
        ELSE /\ wrongChar = ""
             /\ clearing' = [ clearing EXCEPT !.field = TypeCharacter(@, char), !.at = @ + 1 ]
  /\ UNCHANGED nonClearVars

\* the end of the typing loop
TypeAfterClearEnds ==
  /\ clearing.pc = "type"
  /\ clearing.at = Len(clearing.text)
  /\ clearing' = [ clearing EXCEPT !.pc = "done" ]
  /\ UNCHANGED nonClearVars

-----------------------------------------------------------------------------
(* Element lookup: getElement, isElementStillValid, getPageElements and    *)
(* findElementWithFallbacks (src/content/page-detector.js) for the         *)
(* homepage map, while the page changes its document.                      *)

MaxLookups == 2
MaxDomChanges == 2

\* two names of the homepage map, lines 686-705
ElementNames == {"searchBar", "searchButton"}

\* the nodes that the selectors of each name match, in document order
Nodes == 1..3
Matches(elementName) == IF elementName = "searchBar" THEN {1, 2} ELSE {3}

\* a node is attached and visible, attached and hidden, or detached
NodeStates ==
  { [ attached |-> TRUE, visible |-> TRUE ],
    [ attached |-> TRUE, visible |-> FALSE ],
    [ attached |-> FALSE, visible |-> FALSE ] }

\* isElementVisible, lines 1083-1110
IsElementVisible(element) == domNodes[element].visible

\* isElementStillValid, lines 475-479
IsElementStillValid(element) ==
  /\ element # 0
  /\ domNodes[element].attached
  /\ IsElementVisible(element)

\* one pass of the loop of waitForElement, lines 1049-1054: the first
\* visible element of querySelectorAll, 0 if none
VisibleMatch(elementName) ==
  LET visible == { n \in Matches(elementName) : domNodes[n].attached /\ IsElementVisible(n) }
  IN IF visible = {} THEN 0 ELSE CHOOSE n \in visible : \A m \in visible : n <= m

\* the entry of findElementWithFallbacks, lines 413-421
ElementInfo(element) == [ element |-> element, visible |-> IsElementVisible(element) ]

\* no entries
NoElements == [ n \in {} |-> ElementInfo(1) ]

\* no call of getElement
NoLookup ==
  [ pc |-> "idle", elementName |-> "", pending |-> {}, found |-> NoElements,
    result |-> [ element |-> 0, visible |-> FALSE ] ]

\* the names that one pass of waitForElement finds among names
FoundNow(names) ==
  [ n \in { m \in names : VisibleMatch(m) # 0 } |-> ElementInfo(VisibleMatch(n)) ]

\* getPageElements lines 392-403 and getElement lines 466-472, once every
\* promise has settled: the entries are stored, and the entry of the name is
\* returned or the error thrown
Settled(elementName, found) ==
  [ NoLookup EXCEPT
      !.pc = IF elementName \in DOMAIN found THEN "returned" ELSE "thrown",
      !.elementName = elementName,
      !.found = found,
      !.result = IF elementName \in DOMAIN found THEN found[elementName] ELSE @ ]

\* the lookup after the promises of names pending are left: settled if none
Resolving(elementName, found, pending) ==
  IF pending = {} THEN Settled(elementName, found)
  ELSE [ NoLookup EXCEPT !.pc = "resolving", !.elementName = elementName,
                         !.found = found, !.pending = pending ]

\* getElement(elementName), lines 450-465: the cached entry if it is still
\* valid; else getPageElements starts findElementWithFallbacks for every
\* name, and the first pass of each waitForElement runs at once
GetElement(elementName) ==
  /\ lookup.pc = "idle"
  /\ elementOps.lookups < MaxLookups
  /\ elementOps' = [ elementOps EXCEPT !.lookups = @ + 1 ]
  /\ IF /\ elementName \in DOMAIN pageElements
        /\ IsElementStillValid(pageElements[elementName].element)
     THEN /\ lookup' = [ NoLookup EXCEPT !.pc = "returned", !.elementName = elementName,
                                         !.result = pageElements[elementName] ]
          /\ UNCHANGED pageElements
     ELSE LET found == FoundNow(ElementNames)
              pending == ElementNames \ DOMAIN found
          IN /\ lookup' = Resolving(elementName, found, pending)
             /\ pageElements' = IF pending = {} THEN found ELSE pageElements
  /\ UNCHANGED domNodes
  /\ UNCHANGED nonElementVars

\* a later pass of waitForElement for a pending name finds a visible element
\* (lines 1047-1054, after the sleep of line 1059)
ElementAppears(name) ==
  /\ lookup.pc = "resolving"
  /\ name \in lookup.pending
  /\ VisibleMatch(name) # 0
  /\ LET found == FoundNow({name}) @@ lookup.found
         pending == lookup.pending \ {name}
     IN /\ lookup' = Resolving(lookup.elementName, found, pending)
        /\ pageElements' = IF pending = {} THEN found ELSE pageElements
  /\ UNCHANGED << domNodes, elementOps >>
  /\ UNCHANGED nonElementVars

\* the selectors of a pending name time out (lines 1047 and 1062, 410-428):
\* findElementWithFallbacks returns null
ElementTimesOut(name) ==
  /\ lookup.pc = "resolving"
  /\ name \in lookup.pending
  /\ VisibleMatch(name) = 0
  /\ LET pending == lookup.pending \ {name}
     IN /\ lookup' = Resolving(lookup.elementName, lookup.found, pending)
        /\ pageElements' = IF pending = {} THEN lookup.found ELSE pageElements
  /\ UNCHANGED << domNodes, elementOps >>
  /\ UNCHANGED nonElementVars

\* the caller of getElement has its answer (scenario-runner.js line 601)
LookupEnds ==
  /\ lookup.pc \in {"returned", "thrown"}
  /\ lookup' = NoLookup
  /\ UNCHANGED << domNodes, pageElements, elementOps >>
  /\ UNCHANGED nonElementVars

\* the page changes a node: it is removed, hidden, shown or inserted
PageChanges(node, state) ==
  /\ elementOps.changes < MaxDomChanges
  /\ lookup.pc \in {"idle", "resolving"}
  /\ state # domNodes[node]
  /\ domNodes' = [ domNodes EXCEPT ![node] = state ]
  /\ elementOps' = [ elementOps EXCEPT !.changes = @ + 1 ]
  /\ UNCHANGED << pageElements, lookup >>
  /\ UNCHANGED nonElementVars

-----------------------------------------------------------------------------

\* the constructor: the run control of a new engine
RunnerInit ==
  /\ options \in [ retryAttempts : RetryAttemptsOptions, defaultDelay : {DefaultDelay} ]
  /\ scenarios = BuiltInScenarios
  /\ currentScenario = 0
  /\ currentStep = 0
  /\ isRunning = FALSE
  /\ isPaused = FALSE
  /\ executionLog = 0
  /\ errors = 0
  /\ prepared = << >>
  /\ runs = << >>
  /\ lastOp = [ op |-> "new", result |-> "", emitted |-> << >> ]
  /\ ctl = 0

\* no scenario is current: there is no resolved-parameter map
ParametersIdle ==
  /\ resolvedParameters = NoParameters
  /\ resolved = NoResolution

\* a new engine with the default options
RunnerIdle ==
  /\ RunnerInit
  /\ options.retryAttempts = DefaultRetryAttempts

\* the constructor of PageDetector
DetectorInit ==
  /\ href \in Urls
  /\ now = 0
  /\ isDetecting = FALSE
  /\ detectionQueue = << >>
  /\ detectionCache = [ u \in {} |-> 0 ]
  /\ currentPage = NoSnapshot
  /\ calls = [ c \in 1..MaxCallers |-> [ pc |-> "idle", result |-> NoSnapshot ] ]
  /\ lastCall = 0

\* a new page detector on the first page
DetectorIdle ==
  /\ DetectorInit
  /\ href = "https://www.speedwaymotors.com/garage"

\* the constructors of NaturalMouseEngine and HumanSimulator
MouseInit ==
  /\ implementation \in {NaturalMouseEngine, HumanSimulator}
  /\ isMoving = FALSE
  /\ hidden = FALSE
  /\ moves = [ m \in 1..MaxMoves |-> NoMove ]
  /\ dispatched = << >>

\* a cursor that nothing has moved
MouseIdle ==
  /\ MouseInit
  /\ implementation = NaturalMouseEngine

\* no step is waiting
WaitIdle == wait = NoWait

\* combineDetectionResults was not called
FusionIdle == fusion = NoFusion

\* cacheDetection was not called
CacheIdle == cacheRun = NoCacheRun

\* no pass of the page's own is in flight
AutoIdle == autoDetection = NoAutoDetection

\* no trigger has happened since the detector was built
DebounceIdle ==
  /\ clock = StartClock
  /\ debounceTimer = 0
  /\ loadTimers = {}
  /\ lastChange = 0
  /\ triggers = << >>
  /\ passes = << >>

\* the two engines as constructed (mouse.js lines 6-16, part_006 lines 6-18)
PersonaInit(selectedType, profile) ==
  /\ movementProfile = GenerateMovementProfile(selectedType)
  /\ mouseHistory = 0
  /\ userProfile = profile
  /\ fatigueLevel = 0
  /\ actionHistory = 0
  /\ sessionDuration = 0
  /\ lastRead = NoRead
  /\ personaOps = 0

\* the two engines after HistoryCap - 1 movements and actions
PersonaUsed(selectedType, profile) ==
  /\ movementProfile = [ GenerateMovementProfile(selectedType)
                           EXCEPT !.movementCount = HistoryCap - 1,
                                  !.totalDistance = 0 ]
  /\ mouseHistory = HistoryCap - 1
  /\ userProfile = profile
  /\ fatigueLevel = 0
  /\ actionHistory = HistoryCap - 1
  /\ sessionDuration = 0
  /\ lastRead = NoRead
  /\ personaOps = 0

\* the personas are left alone
PersonaIdle ==
  PersonaInit("casual", CHOOSE profile \in GenerateUserProfile :
                          /\ profile.type = "casual"
                          /\ profile.readingWPM = 120
                          /\ profile.patience = 40
                          /\ profile.scrollSpeed = 250
                          /\ profile.sessionLength = 5)

\* humanType is not called
TypingIdle == typing = NoTyping

\* the registered definitions and no run
ObjectsIdle ==
  /\ objects = Registered
  /\ currentRef = 0
  /\ refRuns = 0

\* no move along a path
PathIdle == pathRun = NoPath("casual")

\* popup and page after their loadSettings and init()
SettingsIdle ==
  /\ popupSettings = DefaultSettings
  /\ settingsRequest = NoRequest
  /\ reply = NoReply
  /\ contentSettings = DefaultSettings
  /\ humanSimOptions = SimulatorOptions(DefaultSettings)
  /\ settingsUpdates = 0

\* no call of humanType on a field with content
ClearIdle == clearing = NoClearing

\* no lookup of an element: an empty document
ElementsIdle ==
  /\ domNodes = [ n \in Nodes |-> [ attached |-> FALSE, visible |-> FALSE ] ]
  /\ pageElements = NoElements
  /\ lookup = NoLookup
  /\ elementOps = [ lookups |-> 0, changes |-> 0 ]

Init ==
  /\ RunnerInit
  /\ ParametersIdle
  /\ DetectorIdle
  /\ MouseIdle
  /\ WaitIdle
  /\ FusionIdle
  /\ CacheIdle
  /\ AutoIdle
  /\ DebounceIdle
  /\ PersonaIdle
  /\ TypingIdle
  /\ ObjectsIdle
  /\ PathIdle
  /\ SettingsIdle
  /\ ClearIdle
  /\ ElementsIdle

Next ==
  \/ \E call \in Calls : RunScenario(call.name, call.parameters)
  \/ \E r \in 1..MaxRuns : \E outcome \in Outcomes : StepSettles(r, outcome)
  \/ \E r \in 1..MaxRuns : BackoffEnds(r)
  \/ \E r \in 1..MaxRuns : \E outcome \in Outcomes : RetrySettles(r, outcome)
  \/ \E r \in 1..MaxRuns : DelayEnds(r)
  \/ \E r \in 1..MaxRuns : PollEnds(r)
  \/ Pause
  \/ Resume
  \/ Stop
  \/ \E name \in DOMAIN UserScenarios : AddScenario(name)

Spec == Init /\ [][Next]_vars

\* parameter substitution on its own: a scenario has been prepared, its
\* resolved parameters hold supplied or default values, and step handlers
\* resolve fields and store extracted values
InitParameters ==
  /\ RunnerInit
  /\ resolvedParameters \in [ {"searchTerm", "quantity"} -> ParameterValues ]
  /\ resolved = NoResolution
  /\ DetectorIdle
  /\ MouseIdle
  /\ WaitIdle
  /\ FusionIdle
  /\ CacheIdle
  /\ AutoIdle
  /\ DebounceIdle
  /\ PersonaIdle
  /\ TypingIdle
  /\ ObjectsIdle
  /\ PathIdle
  /\ SettingsIdle
  /\ ClearIdle
  /\ ElementsIdle

NextParameters ==
  \/ \E value \in StepFields : ResolveParameter(value)
  \/ \E name \in StoreAsNames : \E value \in ExtractedValues : SetParameter(name, value)

SpecParameters == InitParameters /\ [][NextParameters]_vars

\* the page detector on its own: callers, the page and the clock
InitDetector ==
  /\ RunnerIdle
  /\ ParametersIdle
  /\ DetectorInit
  /\ MouseIdle
  /\ WaitIdle
  /\ FusionIdle
  /\ CacheIdle
  /\ AutoIdle
  /\ DebounceIdle
  /\ PersonaIdle
  /\ TypingIdle
  /\ ObjectsIdle
  /\ PathIdle
  /\ SettingsIdle
  /\ ClearIdle
  /\ ElementsIdle

NextDetector ==
  \/ \E c \in 1..MaxCallers : DetectCurrentPage(c)
  \/ \E c \in 1..MaxCallers : \E document \in Documents : \E elements \in ElementMaps :
       DetectionSettles(c, document, elements)
  \/ \E c \in 1..MaxCallers : DetectionThrows(c)
  \/ \E url \in Urls : Navigate(url)
  \/ Tick

SpecDetector == InitDetector /\ [][NextDetector]_vars

\* the cursor movement on its own: move requests, timers and frames
InitMouse ==
  /\ RunnerIdle
  /\ ParametersIdle
  /\ DetectorIdle
  /\ MouseInit
  /\ WaitIdle
  /\ FusionIdle
  /\ CacheIdle
  /\ AutoIdle
  /\ DebounceIdle
  /\ PersonaIdle
  /\ TypingIdle
  /\ ObjectsIdle
  /\ PathIdle
  /\ SettingsIdle
  /\ ClearIdle
  /\ ElementsIdle

NextMouse ==
  \/ \E m \in 1..MaxMoves : \E valid, force, overshoot \in BOOLEAN :
       MoveToPosition(m, valid, force, overshoot)
  \/ \E m \in 1..MaxMoves : \E overshoot \in BOOLEAN : WaitForMovementComplete(m, overshoot)
  \/ \E m \in 1..MaxMoves : \E overshoot \in BOOLEAN : PerformIdleMovement(m, overshoot)
  \/ \E m \in 1..MaxMoves : DispatchPoint(m)
  \/ \E m \in 1..MaxMoves : OvershootPauseEnds(m)
  \/ \E m \in 1..MaxMoves : AnimationComplete(m)
  \/ VisibilityChange

SpecMouse == InitMouse /\ [][NextMouse]_vars

\* the bounded waits on their own
InitWaits ==
  /\ RunnerIdle
  /\ ParametersIdle
  /\ DetectorIdle
  /\ MouseIdle
  /\ WaitIdle
  /\ FusionIdle
  /\ CacheIdle
  /\ AutoIdle
  /\ DebounceIdle
  /\ PersonaIdle
  /\ TypingIdle
  /\ ObjectsIdle
  /\ PathIdle
  /\ SettingsIdle
  /\ ClearIdle
  /\ ElementsIdle

NextWaits ==
  \/ \E kind \in WaitKinds : StartWait(kind)
  \/ ConditionMet
  \/ PollAgain
  \/ TimeoutReached

SpecWaits == InitWaits /\ [][NextWaits]_vars

\* the signal fusion on its own
InitFusion ==
  /\ RunnerIdle
  /\ ParametersIdle
  /\ DetectorIdle
  /\ MouseIdle
  /\ WaitIdle
  /\ FusionIdle
  /\ CacheIdle
  /\ AutoIdle
  /\ DebounceIdle
  /\ PersonaIdle
  /\ TypingIdle
  /\ ObjectsIdle
  /\ PathIdle
  /\ SettingsIdle
  /\ ClearIdle
  /\ ElementsIdle

NextFusion == \E document \in SignalCombinations : Combine(document)

SpecFusion == InitFusion /\ [][NextFusion]_vars

\* the cache pruning on its own
InitCache ==
  /\ RunnerIdle
  /\ ParametersIdle
  /\ DetectorIdle
  /\ MouseIdle
  /\ WaitIdle
  /\ FusionIdle
  /\ cacheRun \in CacheCalls
  /\ AutoIdle
  /\ DebounceIdle
  /\ PersonaIdle
  /\ TypingIdle
  /\ ObjectsIdle
  /\ PathIdle
  /\ SettingsIdle
  /\ ClearIdle
  /\ ElementsIdle

NextCache == ApplyCacheDetection

SpecCache == InitCache /\ [][NextCache]_vars

\* the page detector with the passes that the page starts itself
InitAutoDetection ==
  /\ RunnerIdle
  /\ ParametersIdle
  /\ DetectorIdle
  /\ MouseIdle
  /\ WaitIdle
  /\ FusionIdle
  /\ CacheIdle
  /\ AutoIdle
  /\ DebounceIdle
  /\ PersonaIdle
  /\ TypingIdle
  /\ ObjectsIdle
  /\ PathIdle
  /\ SettingsIdle
  /\ ClearIdle
  /\ ElementsIdle

NextAutoDetection ==
  \/ \E c \in 1..MaxCallers : DetectCurrentPage(c)
  \/ \E c \in 1..MaxCallers : \E document \in Documents : \E elements \in ElementMaps :
       DetectionSettles(c, document, elements)
  \/ DebouncedDetectionStarts
  \/ \E document \in Documents : \E elements \in ElementMaps :
       DebouncedDetectionSettles(document, elements)
  \/ Tick

SpecAutoDetection == InitAutoDetection /\ [][NextAutoDetection]_vars

\* the re-detection triggers on their own
InitDebounce ==
  /\ RunnerIdle
  /\ ParametersIdle
  /\ DetectorIdle
  /\ MouseIdle
  /\ WaitIdle
  /\ FusionIdle
  /\ CacheIdle
  /\ AutoIdle
  /\ DebounceIdle
  /\ PersonaIdle
  /\ TypingIdle
  /\ ObjectsIdle
  /\ PathIdle
  /\ SettingsIdle
  /\ ClearIdle
  /\ ElementsIdle

NextDebounce ==
  \/ HistoryChange
  \/ SignificantMutation
  \/ PageLoad
  \/ \E t \in loadTimers : LoadTimerFires(t)
  \/ DebounceTimerFires
  \/ ClockAdvances

SpecDebounce == InitDebounce /\ [][NextDebounce]_vars

\* the log functions on their own
InitLog ==
  /\ RunnerIdle
  /\ ParametersIdle
  /\ DetectorIdle
  /\ MouseIdle
  /\ WaitIdle
  /\ FusionIdle
  /\ CacheIdle
  /\ AutoIdle
  /\ DebounceIdle
  /\ PersonaIdle
  /\ TypingIdle
  /\ ObjectsIdle
  /\ PathIdle
  /\ SettingsIdle
  /\ ClearIdle
  /\ ElementsIdle

NextLog ==
  \/ LogInfoCalled
  \/ LogWarnCalled
  \/ LogErrorCalled

SpecLog == InitLog /\ [][NextLog]_vars

\* the two personas on their own
InitPersona ==
  /\ RunnerIdle
  /\ ParametersIdle
  /\ DetectorIdle
  /\ MouseIdle
  /\ WaitIdle
  /\ FusionIdle
  /\ CacheIdle
  /\ AutoIdle
  /\ DebounceIdle
  /\ \E selectedType \in DOMAIN MovementProfiles, profile \in GenerateUserProfile :
       \/ PersonaInit(selectedType, profile)
       \/ PersonaUsed(selectedType, profile)
  /\ TypingIdle
  /\ ObjectsIdle
  /\ PathIdle
  /\ SettingsIdle
  /\ ClearIdle
  /\ ElementsIdle

NextPersona ==
  \/ \E distance \in Distances : RecordMovement(distance)
  \/ GenerateControlPoint
  \/ AddTremor
  \/ ShouldOvershoot
  \/ CalculateMovementDuration
  \/ GetMovementStats
  \/ CalculateReadingTime
  \/ GetSessionMultiplier
  \/ \E actionType \in ActionTypes : GetActionDelay(actionType)
  \/ RecordAction
  \/ GetStats
  \/ SessionGoesOn

SpecPersona == InitPersona /\ [][NextPersona]_vars

\* humanType on its own
InitTyping ==
  /\ RunnerIdle
  /\ ParametersIdle
  /\ DetectorIdle
  /\ MouseIdle
  /\ WaitIdle
  /\ FusionIdle
  /\ CacheIdle
  /\ AutoIdle
  /\ DebounceIdle
  /\ PersonaIdle
  /\ \E text \in Texts, option \in MistakeRates : typing = HumanType(text, option)
  /\ ObjectsIdle
  /\ PathIdle
  /\ SettingsIdle
  /\ ClearIdle
  /\ ElementsIdle

NextTyping ==
  \/ \E roll \in BOOLEAN, wrongChar \in {""} \cup Chars \cup { Keyboard[k] : k \in DOMAIN Keyboard } :
       TypeNext(roll, wrongChar)
  \/ RealizeMistake
  \/ TypeCorrect
  \/ TypingEnds

SpecTyping == InitTyping /\ [][NextTyping]_vars

\* the scenario objects on their own
InitObjects ==
  /\ RunnerIdle
  /\ ParametersIdle
  /\ DetectorIdle
  /\ MouseIdle
  /\ WaitIdle
  /\ FusionIdle
  /\ CacheIdle
  /\ AutoIdle
  /\ DebounceIdle
  /\ PersonaIdle
  /\ TypingIdle
  /\ ObjectsIdle
  /\ PathIdle
  /\ SettingsIdle
  /\ ClearIdle
  /\ ElementsIdle

NextObjects ==
  \/ \E name \in DOMAIN ScenarioRefs, parameters \in RunParameters : RunStarts(name, parameters)
  \/ \E i \in 1..2, retryAttempts \in RetryAttemptsOptions : RetryCounted(i, retryAttempts)
  \/ \E name \in {"token", "orderId"}, value \in StoredValues : ParameterStored(name, value)
  \/ RunEnds

SpecObjects == InitObjects /\ [][NextObjects]_vars

\* the path of one move on its own
InitPath ==
  /\ RunnerIdle
  /\ ParametersIdle
  /\ DetectorIdle
  /\ MouseIdle
  /\ WaitIdle
  /\ FusionIdle
  /\ CacheIdle
  /\ AutoIdle
  /\ DebounceIdle
  /\ PersonaIdle
  /\ TypingIdle
  /\ ObjectsIdle
  /\ \E type \in DOMAIN MovementProfiles : pathRun = NoPath(type)
  /\ SettingsIdle
  /\ ClearIdle
  /\ ElementsIdle

NextPath ==
  \/ \E target \in Targets, overshootDistance \in {0, 5 * Px, 30 * Px},
        bends \in Bends \X Bends, draw \in TremorDraws :
       MovePath(target, overshootDistance, bends, draw)
  \/ \E draw \in TremorDraws : PathStep(draw)
  \/ \E draw \in TremorDraws : OvershootCorrected(draw)

SpecPath == InitPath /\ [][NextPath]_vars

\* the settings update on its own
InitSettings ==
  /\ RunnerIdle
  /\ ParametersIdle
  /\ DetectorIdle
  /\ MouseIdle
  /\ WaitIdle
  /\ FusionIdle
  /\ CacheIdle
  /\ AutoIdle
  /\ DebounceIdle
  /\ PersonaIdle
  /\ TypingIdle
  /\ ObjectsIdle
  /\ PathIdle
  /\ SettingsIdle
  /\ ClearIdle
  /\ ElementsIdle

NextSettings ==
  \/ \E key \in DOMAIN SettingValues : \E value \in SettingValues[key] :
       UpdateSetting(key, value)
  \/ HandleUpdateSettings

SpecSettings == InitSettings /\ [][NextSettings]_vars

\* the clearing of a field on its own
InitClear ==
  /\ RunnerIdle
  /\ ParametersIdle
  /\ DetectorIdle
  /\ MouseIdle
  /\ WaitIdle
  /\ FusionIdle
  /\ CacheIdle
  /\ AutoIdle
  /\ DebounceIdle
  /\ PersonaIdle
  /\ TypingIdle
  /\ ObjectsIdle
  /\ PathIdle
  /\ SettingsIdle
  /\ ClearIdle
  /\ ElementsIdle

NextClear ==
  \/ \E mode \in ClearModes : \E prior \in Priors : \E caret \in {0, Len(prior)} :
       \E text \in Texts : HumanTypeInto(mode, prior, caret, text)
  \/ ClearText
  \/ ClearTextManually
  \/ ClearByShortcut
  \/ \E roll \in BOOLEAN : \E wrongChar \in {""} \cup {Keyboard[k] : k \in DOMAIN Keyboard} :
       TypeAfterClear(roll, wrongChar)
  \/ TypeAfterClearEnds

SpecClear == InitClear /\ [][NextClear]_vars

\* the element lookup on its own, on any document
InitElements ==
  /\ RunnerIdle
  /\ ParametersIdle
  /\ DetectorIdle
  /\ MouseIdle
  /\ WaitIdle
  /\ FusionIdle
  /\ CacheIdle
  /\ AutoIdle
  /\ DebounceIdle
  /\ PersonaIdle
  /\ TypingIdle
  /\ ObjectsIdle
  /\ PathIdle
  /\ SettingsIdle
  /\ ClearIdle
  /\ domNodes \in [ Nodes -> NodeStates ]
  /\ pageElements = NoElements
  /\ lookup = NoLookup
  /\ elementOps = [ lookups |-> 0, changes |-> 0 ]

NextElements ==
  \/ \E elementName \in ElementNames : GetElement(elementName)
  \/ \E name \in ElementNames : ElementAppears(name)
  \/ \E name \in ElementNames : ElementTimesOut(name)
  \/ LookupEnds
  \/ \E node \in Nodes : \E state \in NodeStates : PageChanges(node, state)

SpecElements == InitElements /\ [][NextElements]_vars

-----------------------------------------------------------------------------
(* Properties.  What they say about an invocation is read off the events   *)
(* emitted during its lifetime and off its locals.                         *)

\* the transition appends a StepStarted event of invocation r: its loop
\* starts a step and dispatches the step's handler
StartsStep(r) ==
  /\ Len(runs'[r].emitted) = Len(runs[r].emitted) + 1
  /\ runs'[r].emitted[Len(runs'[r].emitted)].type = "onStepStart"

\* the transition is the end of invocation r: its finally block has run
Settles(r) ==
  /\ r \in InFlight(runs)
  /\ r \notin InFlight(runs')

\* the stop() event
IsStopEvent(e) == e.type = "onComplete" /\ e.stopped

\* C1: at most one run executes steps at a time.  In particular, once stop()
\* was called during invocation a and a later invocation is in flight,
\* invocation a starts no further step, and its end leaves isRunning and
\* currentScenario as they are.
C1_StoppedRunLeavesNextRunAlone ==
  [][ \A a \in DOMAIN runs :
        (runs[a].stopped /\ \E b \in InFlight(runs) : b > a)
          => /\ ~StartsStep(a)
             /\ Settles(a) => UNCHANGED << isRunning, currentScenario >> ]_vars

\* the retry budget of a step: step.retryAttempts, or the engine default
\* when the step gives none
RetryBudget(step) ==
  IF step.retryAttempts # Undef THEN step.retryAttempts ELSE options.retryAttempts

\* C2: when the failure of a step has propagated out of the step loop (the
\* invocation has failed; every attempt of its step i failed), the step was
\* executed exactly N+1 times, N being its retry budget.
C2_FailingStepExecutedBudgetPlusOne ==
  \A r \in DOMAIN runs :
    runs[r].pc = "failed"
      => runs[r].attempts = RetryBudget(StepOf(Engine, r, runs[r].i)) + 1

\* C3: after stop() was called during a run, no further step of that run is
\* started.  Stated for an engine on which no other invocation was accepted:
\* no StepStarted event follows the stop() event in the events of the run.
C3_NoStepStartedAfterStop ==
  Len(runs) = 1 =>
    \A j, k \in DOMAIN runs[1].emitted :
      (j < k /\ IsStopEvent(runs[1].emitted[j])) => runs[1].emitted[k].type # "onStepStart"

\* the scenario is registered, declares a required parameter, and the call
\* gives no value for it
LacksRequiredValue(call) ==
  /\ call.name \in DOMAIN scenarios
  /\ \E p \in DOMAIN scenarios[call.name].parameters :
       scenarios[call.name].parameters[p].required /\ p \notin DOMAIN call.parameters

\* C4: runScenario on a scenario that declares a required parameter, called
\* without a value for it, raises an error (on an engine that is not running,
\* the validation error) before any step executes: it emits no event, starts
\* no invocation, and changes no field of the engine, so an Idle engine
\* (isRunning false, currentScenario null) stays Idle.
C4_MissingRequiredRejectedBeforeAnyStep ==
  [][ \A call \in Calls :
        (LacksRequiredValue(call) /\ RunScenario(call.name, call.parameters))
          => /\ lastOp'.result # "started"
             /\ lastOp'.emitted = << >>
             /\ UNCHANGED engineVars
             /\ ~isRunning => lastOp'.result = RequiredError
             /\ (~isRunning /\ currentScenario = 0) => (~isRunning' /\ currentScenario' = 0) ]_vars

\* C4 witness: a call was rejected for a missing required parameter after an
\* earlier run had ended, and the engine is Idle with that run's log in place
C4_Witness ==
  /\ lastOp = Thrown(RequiredError)
  /\ ~isRunning /\ currentScenario = 0
  /\ executionLog > 0
  /\ \E r \in DOMAIN runs : runs[r].pc \in {"done", "failed"}

\* every declared parameter of the scenario has a default value
AllDefaults(name) ==
  \A p \in DOMAIN scenarios[name].parameters : scenarios[name].parameters[p].default # NoValue

\* C5: for a registered scenario in which every declared parameter has a
\* default value, runScenario with no supplied parameters on an engine that
\* is not running starts the run and resolves every parameter to its default.
C5_AllDefaultParametersRun ==
  [][ \A call \in Calls :
        ( /\ call.name \in DOMAIN scenarios
          /\ AllDefaults(call.name)
          /\ DOMAIN call.parameters = {}
          /\ ~isRunning
          /\ RunScenario(call.name, call.parameters) )
          => /\ lastOp'.result = "started"
             /\ prepared'[Len(prepared')].resolvedParameters =
                  [ p \in DOMAIN scenarios[call.name].parameters |->
                      scenarios[call.name].parameters[p].default ] ]_vars

\* C6: runScenario called while isRunning is true is rejected with the busy
\* error and changes no field of the engine (currentScenario, currentStep,
\* isPaused, the resolved parameters, executionLog, errors) and emits no event.
C6_BusyCallChangesNothing ==
  [][ \A call \in Calls :
        (isRunning /\ RunScenario(call.name, call.parameters))
          => /\ lastOp' = Thrown(BusyError)
             /\ UNCHANGED engineVars ]_vars

\* C6 witness: a call was rejected as busy while a paused run was at its
\* second step
C6_Witness ==
  /\ lastOp = Thrown(BusyError)
  /\ isRunning /\ isPaused
  /\ \E r \in InFlight(runs) : currentScenario = r /\ runs[r].i = 1 /\ currentStep = 1

IsStepStart(e) == e.type = "onStepStart"

\* the StepStarted events of invocation r, in the order of their emission
StepStarts(r) == SelectSeq(runs[r].emitted, IsStepStart)

\* C7: within one run that was not stopped, steps execute strictly in
\* definition order: its StepStarted events carry the indices 1, 2, ... each
\* once and in increasing order, and when the run has completed they are the
\* indices 1..n of all n steps of the scenario.
C7_StepsInDefinitionOrder ==
  \A r \in DOMAIN runs :
    (runs[r].pc # "released" /\ ~runs[r].stopped)
      => /\ \A k \in DOMAIN StepStarts(r) : StepStarts(r)[k].step = k
         /\ runs[r].pc = "done" => Len(StepStarts(r)) = Len(prepared[r].steps)

\* pause() was called during invocation r and resume() has not been called since
PausedRun(r) ==
  \E j \in DOMAIN runs[r].emitted :
    /\ runs[r].emitted[j].type = "onPause"
    /\ \A k \in DOMAIN runs[r].emitted : k > j => runs[r].emitted[k].type # "onResume"

\* C8: while a run is paused (pause() called, resume() not yet called, the
\* run not stopped) no new step of it is started.
C8_NoStepStartedWhilePaused ==
  [][ \A r \in InFlight(runs) :
        (PausedRun(r) /\ ~runs[r].stopped) => ~StartsStep(r) ]_vars

\* C9: a run during which stop() was called is never reported as an error:
\* it emits no Errored event and its runScenario does not reject.
C9_StoppedRunNeverFails ==
  \A r \in DOMAIN runs :
    runs[r].stopped
      => /\ runs[r].pc # "failed"
         /\ \A k \in DOMAIN runs[r].emitted : runs[r].emitted[k].type # "onError"

\* the last event is an Errored event
EndsWithError(events) ==
  events # << >> /\ events[Len(events)].type = "onError"

\* C10: every rejection of runScenario produces an Errored event as the
\* final event of the invocation: a call that threw at once (unknown
\* scenario, parameter validation) has emitted one, and an invocation whose
\* step failed ends with one that carries the index of the failed step and
\* the message of the error.
C10_EveryFailureEndsWithErrorEvent ==
  /\ (lastOp.op = "runScenario" /\ lastOp.result \in {NotFoundError, RequiredError})
       => EndsWithError(lastOp.emitted)
  /\ \A r \in DOMAIN runs :
       runs[r].pc = "failed"
         => /\ EndsWithError(runs[r].emitted)
            /\ runs[r].emitted[Len(runs[r].emitted)].step = runs[r].i
            /\ runs[r].emitted[Len(runs[r].emitted)].error = runs[r].err

\* C12: a custom step whose handler is a function in the scenario's
\* definition has that handler invoked when the scenario is run: the run
\* never fails on such a step with "Custom action requires a handler
\* function".
C12_CustomHandlerInvoked ==
  \A r \in DOMAIN runs :
    ( /\ runs[r].pc = "failed"
      /\ scenarios[runs[r].name].steps[runs[r].i + 1].action = "custom"
      /\ scenarios[runs[r].name].steps[runs[r].i + 1].handler )
      => runs[r].err # NoHandlerError

\* C11: for every parameter name p present in the resolved-parameter map
\* with value v, resolving a string step field replaces every occurrence of
\* ${p} by v, whatever v is (0, false and the empty string included).
C11_EveryValueSubstituted ==
  [][ \A value \in StepFields :
        (value.type = "string" /\ ResolveParameter(value))
          => \A k \in DOMAIN value.pieces :
               (value.pieces[k].placeholder /\ value.pieces[k].text \in DOMAIN resolvedParameters)
                 => resolved'.result.pieces[k] = resolvedParameters[value.pieces[k].text].text ]_vars

\* a call that has returned a snapshot of its own performDetection
RanDetection(c) ==
  /\ calls[c].pc = "returned"
  /\ ~calls[c].result.fromCache
  /\ ~calls[c].result.fromQueue

\* C13: while one detection is in flight, further detectCurrentPage calls
\* on a cache miss start no second performDetection: at most one is in flight
\* at any time, and every caller resolved from the queue holds the snapshot of
\* a run that another caller made.
C13_OneDetectionInFlight ==
  /\ Cardinality(Detecting) <= 1
  /\ \A c \in DOMAIN calls :
       (calls[c].pc = "returned" /\ calls[c].result.fromQueue)
         => \E d \in DOMAIN calls :
              /\ RanDetection(d)
              /\ calls[c].result = [ calls[d].result EXCEPT !.fromQueue = TRUE ]

\* C14: a detectCurrentPage call that immediately follows the return of a
\* successful one, with no navigation and no time passing in between, returns
\* from the cache (fromCache set) the same page type and the same element map,
\* and starts no performDetection.
C14_SecondCallServedFromCache ==
  [][ \A c \in 1..MaxCallers :
        ( /\ lastCall \in 1..MaxCallers
          /\ calls[lastCall].result.error = ""
          /\ DetectCurrentPage(c) )
          => /\ calls'[c].pc = "returned"
             /\ calls'[c].result.fromCache
             /\ calls'[c].result.type = calls[lastCall].result.type
             /\ calls'[c].result.elements = calls[lastCall].result.elements
             /\ { d \in DOMAIN calls : calls'[d].pc = "detecting" } = Detecting ]_vars

\* the second of two calls in immediate succession has returned, from the
\* cache, the product page and the elements the first one detected
C14_Witness ==
  /\ lastCall = 2
  /\ RanDetection(1)
  /\ calls[1].result.error = ""
  /\ calls[1].result.type = "product"
  /\ calls[1].result.elements = {"searchBox"}
  /\ calls[2].pc = "returned"
  /\ calls[2].result.fromCache
  /\ calls[2].result.type = "product"
  /\ calls[2].result.elements = {"searchBox"}

\* a snapshot that records a failure: of performDetection as a whole, or of
\* one of its signals
RecordsFailure(result) ==
  \/ result.error # ""
  \/ \E method \in DOMAIN result.detectionMethods : result.detectionMethods[method].error # ""

\* C15: a call whose performDetection, or any one signal of it, failed
\* returns a snapshot of type "unknown" with confidence 0 and the error
\* message; that snapshot is not in the cache; and isDetecting is true only
\* while a detection is in flight.
C15_FailureGivesUncachedFallback ==
  /\ \A c \in DOMAIN calls :
       (RanDetection(c) /\ RecordsFailure(calls[c].result))
         => /\ calls[c].result.type = "unknown"
            /\ calls[c].result.confidence = 0
            /\ calls[c].result.error # ""
            /\ \A u \in DOMAIN detectionCache : detectionCache[u].result # calls[c].result
  /\ isDetecting => Detecting # {}

\* C16: a snapshot of a document whose URL, DOM-structure and content
\* signals all report no page type has type "unknown" and confidence 0,
\* whatever the metadata signal reports.
C16_NoSignalMeansUnknown ==
  \A c \in DOMAIN calls :
    ( /\ RanDetection(c)
      /\ calls[c].result.error = ""
      /\ \A method \in {"url", "dom", "content"} :
           calls[c].result.detectionMethods[method].type = "unknown" )
      => /\ calls[c].result.type = "unknown"
         /\ calls[c].result.confidence = 0

\* no forced move was requested
NoForcedMove == \A m \in DOMAIN moves : ~moves[m].force

\* the points of different moves do not interleave in the sequence
Contiguous(sequence) ==
  \A i, j, k \in DOMAIN sequence :
    (i < j /\ j < k /\ sequence[i] = sequence[k]) => sequence[j] = sequence[i]

\* C17: in NaturalMouseEngine, as long as no move was requested with the
\* force option, the points of two moves never interleave (every point of a
\* move, both legs of an overshoot included, is dispatched before the first
\* point of the next), at most one move is in flight, and a request that
\* arrived during a move has dispatched nothing while it waits.
C17_MovesDoNotInterleave ==
  (implementation = NaturalMouseEngine /\ NoForcedMove)
    => /\ Contiguous(dispatched)
       /\ Cardinality(MovesInFlight) <= 1
       /\ \A m \in DOMAIN moves :
            moves[m].pc = "waiting" => \A k \in DOMAIN dispatched : dispatched[k] # m

\* an overshoot move has dispatched both its legs, and the move that was
\* requested meanwhile, after waiting, dispatches its own points
C17_Witness ==
  /\ implementation = NaturalMouseEngine
  /\ NoForcedMove
  /\ moves[2].waited
  /\ moves[2].pc = "moving"
  /\ Len(dispatched) = 2 * PathLength + 1
  /\ \A k \in 1..(2 * PathLength) : dispatched[k] = 1
  /\ dispatched[2 * PathLength + 1] = 2

\* C18: in both implementations isMoving is true exactly while some move is
\* in flight, forced moves and visibility changes included.
C18_MovingFlagTracksMoves ==
  isMoving <=> MovesInFlight # {}

\* the response handleMessage has sent for the executeScenario request that
\* started invocation r: sendResponse is called when the promise of
\* runScenario has settled (content.js lines 82-83 and 124-127)
ExecuteScenarioResponse(r) ==
  CASE runs[r].pc = "done" -> [ sent |-> TRUE, success |-> TRUE, error |-> "" ]
    [] runs[r].pc = "failed" -> [ sent |-> TRUE, success |-> FALSE, error |-> runs[r].err ]
    [] OTHER -> [ sent |-> FALSE, success |-> FALSE, error |-> "" ]

\* C19: the response to an executeScenario request is an acknowledgement
\* that is sent once the run has started, before its steps have completed,
\* and it does not carry the outcome of the run.
C19_ResponseIsEarlyAcknowledgement ==
  \A r \in DOMAIN runs :
    runs[r].pc # "released"
      => /\ ExecuteScenarioResponse(r).sent
         /\ ExecuteScenarioResponse(r).error = ""

\* C20: a bounded wait that ended without its awaited condition having
\* become true has reached its timeout and has thrown an error to the step.
C20_TimeoutRaisesError ==
  (wait.outcome \in {"returned", "thrown"} /\ ~wait.met)
    => /\ ~(wait.elapsed < WaitTimeout(wait.kind))
       /\ wait.outcome = "thrown"
       /\ wait.error # ""

\* the signals of a document that report the page type
Supporters(document, type) ==
  { method \in {"url", "dom", "content", "meta"} : document[method] = type }

RECURSIVE TotalWeight(_)
\* the sum of the weights of a set of signals
TotalWeight(methods) ==
  IF methods = {} THEN 0
  ELSE LET method == CHOOSE m \in methods : TRUE
       IN Weight(method) + TotalWeight(methods \ {method})

\* C30: the fused page type is the type whose supporting signals have the
\* greatest total weight, and it is "unknown" exactly when no signal reports
\* a type.
C30_FusionIsWeightedVote ==
  fusion.applied
    => LET reported == { type \in SignalOutcomes \ {"unknown", "throws"} :
                           Supporters(fusion.document, type) # {} }
       IN /\ fusion.type = "unknown" <=> reported = {}
          /\ \A type \in reported :
               /\ fusion.type \in reported
               /\ TotalWeight(Supporters(fusion.document, fusion.type))
                    >= TotalWeight(Supporters(fusion.document, type))

\* the entries of the last cacheDetection call that were not too old: those
\* of the cache before it and the one it inserted
YoungEntries ==
  { u \in DOMAIN cacheRun.before \cup {cacheRun.url} :
      u = cacheRun.url \/ ~(cacheRun.t - cacheRun.before[u].timestamp > CacheTimeout) }

\* C28: after a cacheDetection call the cache holds at most 50 entries,
\* none of them older than cacheTimeout, and the entry just inserted; the
\* entries removed for the size limit are the oldest by timestamp, half of
\* the entries (rounded up).
C28_CachePrunedByAgeAndSize ==
  cacheRun.applied
    => LET after == cacheRun.after
           removed == YoungEntries \ DOMAIN after
       IN /\ Cardinality(DOMAIN after) <= CacheLimit
          /\ \A u \in DOMAIN after : ~(cacheRun.t - after[u].timestamp > CacheTimeout)
          /\ DOMAIN after \subseteq YoungEntries
          /\ cacheRun.url \in DOMAIN after
          /\ after[cacheRun.url].timestamp = cacheRun.t
          /\ \A u \in removed, v \in DOMAIN after :
               cacheRun.before[u].timestamp <= after[v].timestamp
          /\ removed # {}
               => /\ Cardinality(YoungEntries) > CacheLimit
                  /\ Cardinality(removed) = (Cardinality(YoungEntries) + 1) \div 2

\* a full cache of entries detected within the same millisecond received a
\* further page: the size limit removed the oldest half and kept the new entry
C28_Witness ==
  /\ cacheRun.applied
  /\ Cardinality(DOMAIN cacheRun.before) = CacheLimit
  /\ cacheRun.url \notin DOMAIN cacheRun.before
  /\ \A u \in DOMAIN cacheRun.before : cacheRun.before[u].timestamp = cacheRun.t
  /\ Cardinality(DOMAIN cacheRun.after) = CacheLimit \div 2
  /\ cacheRun.url \in DOMAIN cacheRun.after

\* C27: a detectCurrentPage call returns the snapshot of the most recent
\* completed detection pass for the URL, never an older cached one: a
\* snapshot that the call took from the cache is the one that the last pass
\* left, when that pass was for the current URL; and the cache entry it came
\* from belongs to the current URL and is younger than cacheTimeout.
C27_CacheNeverOlderThanLastPass ==
  ( /\ lastCall # 0
    /\ calls[lastCall].pc = "returned"
    /\ calls[lastCall].result.fromCache )
    => /\ href \in DOMAIN detectionCache
       /\ now - detectionCache[href].timestamp < CacheTimeout
       /\ currentPage.url = href
            => calls[lastCall].result = [ currentPage EXCEPT !.fromCache = TRUE ]

\* C29: every performDetection pass that the triggers cause starts
\* debounceDelay after the last trigger of its burst, not earlier and not
\* later: some trigger lies debounceDelay before the pass and no trigger lies
\* between that one and the pass.  A burst therefore has one pass.
C29_OnePassAfterLastTrigger ==
  \A i \in DOMAIN passes :
    \E k \in DOMAIN triggers :
      /\ triggers[k] + DebounceDelay = passes[i]
      /\ \A j \in DOMAIN triggers : ~(triggers[k] < triggers[j] /\ triggers[j] < passes[i])

\* C22: the run log holds at most 100 entries, whatever mix of info,
\* success, warning and error entries is appended.
C22_LogBounded ==
  executionLog <= LogCap

\* C24: when no run is in flight the engine is idle, with isRunning false,
\* isPaused false and currentScenario null; and isPaused implies isRunning in
\* every reachable state.
C24_IdleAfterRunEnds ==
  /\ isPaused => isRunning
  /\ InFlight(runs) = {}
       => /\ ~isRunning
          /\ ~isPaused
          /\ currentScenario = 0

\* executeStep has returned for the step that invocation r is at: its last
\* statement, validateStepResults (line 177), has evaluated the postconditions
\* of the step, and executeScenario has emitted StepCompleted (line 122)
ValidatedStepResults(r) ==
  \E k \in DOMAIN runs[r].emitted :
    /\ runs[r].emitted[k].type = "onStepComplete"
    /\ runs[r].emitted[k].step = runs[r].i + 1

\* C26: the postconditions of a step are evaluated only after the step's
\* post-step delay has completed: while an invocation is in the post-step
\* delay of a step, validateStepResults has not run for that step.
C26_PostconditionsAfterDelay ==
  \A r \in DOMAIN runs :
    runs[r].pc = "delay" => ~ValidatedStepResults(r)

\* C25: the stop flag is honoured inside the polling loops and the retry path
\* of handleStepError: once stop() has been called on a run, the back-off of
\* that run's failed step does not lead to a retry of the step.
C25_NoRetryAfterStop ==
  [][ \A r \in DOMAIN runs :
        runs[r].stopped /\ runs[r].pc = "backoff"
          => runs'[r].pc # "retry" ]_vars

\* the persona fields of the mouse engine
MousePersona ==
  << movementProfile.type, movementProfile.baseSpeed, movementProfile.curvature,
     movementProfile.overshootChance, movementProfile.tremor >>

\* the persona fields of the timing engine
UserPersona ==
  << userProfile.type, userProfile.readingWPM, userProfile.patience,
     userProfile.scrollSpeed, userProfile.sessionLength >>

\* C23: the persona chosen at construction is immutable: no operation of
\* NaturalMouseEngine changes type, baseSpeed, curvature, overshootChance or
\* tremor of its movementProfile, and no operation of TimingEngine changes
\* type, readingWPM, patience, scrollSpeed or sessionLength of its userProfile.
C23_PersonaImmutable ==
  [][ /\ MousePersona' = MousePersona
      /\ UserPersona' = UserPersona ]_vars

\* movements have been recorded, the cut of a full history included, and the
\* persona is read afterwards
C23_Witness ==
  /\ movementProfile.movementCount > HistoryCap
  /\ mouseHistory = HistoryKeep
  /\ lastRead.op = "getMovementStats"

\* the edits that the field received for character at of the text
EditsFor(at) == SelectSeq(typing.edits, LAMBDA e : e.at = at)

\* C21: whenever a typing mistake is triggered for a character c of the text,
\* at any position, the field receives one insertion of a character different
\* from c, one backspace that removes it, then one insertion of c; and the
\* final value of the field is the requested text.
C21_MistakeIsTypedAndCorrected ==
  /\ \A at \in 1..typing.i :
       typing.rolled[at]
         => LET edits == EditsFor(at)
                c == typing.text[at]
            IN /\ Len(edits) = 3
               /\ edits[1].kind = "insert" /\ edits[1].char # c
               /\ edits[2].kind = "backspace" /\ edits[2].char = edits[1].char
               /\ edits[3].kind = "insert" /\ edits[3].char = c
  /\ typing.pc = "done" => typing.field.value = typing.text

\* C36: scenario definitions are read-only for a run: over any sequence of
\* runs the definition returned by getScenario(name) is unchanged; no
\* _retryCount, resolvedParameters or extracted value is written into it.
C36_DefinitionsReadOnly ==
  \A name \in DOMAIN ScenarioRefs : GetScenario(name) = Registered[ScenarioRefs[name]]

\* a second run of user_flow has started after a first one that counted a
\* retry on a step and stored a parameter
C36_Witness ==
  /\ refRuns = 2
  /\ currentRef = 4
  /\ objects[3].name = "User Flow"
  /\ objects[3].steps[1]._retryCount = 2
  /\ "orderId" \in DOMAIN objects[3].resolvedParameters
  /\ objects[4].name = "User Flow"
  /\ objects[4].steps[1]._retryCount = Undef

\* the terminal events of invocation r: its Completed and Errored events
TerminalEvents(r) ==
  SelectSeq(runs[r].emitted, LAMBDA e : e.type \in {"onComplete", "onError"})

\* C37: each run that emitted a Started event is followed by exactly one
\* terminal event, one Completed or one Errored, never both or two of a kind,
\* whether the run finishes normally, fails or is ended by stop().
C37_ExactlyOneTerminalEvent ==
  \A r \in DOMAIN runs :
    /\ Len(TerminalEvents(r)) <= 1
    /\ runs[r].pc \in {"done", "failed"} => Len(TerminalEvents(r)) = 1

\* the StepCompleted events of invocation r that carry the 1-based index step
StepCompletedEvents(r, step) ==
  SelectSeq(runs[r].emitted, LAMBDA e : e.type = "onStepComplete" /\ e.step = step)

\* C38: every step whose execution ultimately succeeds, on its first attempt
\* or on a retry, gives rise to exactly one StepCompleted event carrying its
\* index, emitted before the next step's StepStarted event: once the loop of
\* an invocation has gone on to step i, each step before i has one.
C38_OneStepCompletedPerSuccess ==
  \A r \in InFlight(runs) :
    \A step \in 1..runs[r].i : Len(StepCompletedEvents(r, step)) = 1

\* C39: every detectCurrentPage call eventually settles with a snapshot: a
\* call queued behind an in-flight detection is resolved when that detection
\* ends, also when it ends with an internal error.  No call is left in the
\* queue with no detection in flight to release it.
C39_QueuedCallIsReleased ==
  Queued # {} => Detecting # {}

\* C40: when detectCurrentPage has returned a snapshot for the current URL
\* (freshly detected, from the cache, or the fallback), currentPage, whose
\* type getElement(name) uses when it is given no page type, describes the
\* same URL and page type as that snapshot.
C40_CurrentPageIsLastSnapshot ==
  lastCall # 0
    => /\ currentPage.url = calls[lastCall].result.url
       /\ currentPage.type = calls[lastCall].result.type

\* C33: a move whose target equals the current cursor position completes
\* immediately: it dispatches at most one mousemove event and performs no
\* inter-step sleeps.
C33_ZeroDistanceMoveIsImmediate ==
  (pathRun.pc # "idle" /\ pathRun.target = pathRun.start)
    => /\ pathRun.dispatched <= 1
       /\ pathRun.sleeps = 0

\* C34: the generated path ends exactly at the target: the last dispatched
\* point is the target for every tremor draw, so after moveToPosition returns
\* true the cursor position equals the requested target.
C34_PathEndsAtTarget ==
  (pathRun.pc = "done" /\ pathRun.result)
    => /\ pathRun.lastPoint = pathRun.target
       /\ pathRun.currentPosition = pathRun.target

\* C35: a settings update notification issued by the popup is applied by the
\* page: after the request is handled, the human simulator's mouseSpeed,
\* typingSpeed and humanness equal the values sent and the response is a
\* success payload.
C35_SettingsUpdateApplied ==
  reply.state = "received"
    => /\ reply.success
       /\ humanSimOptions = SimulatorOptions(popupSettings)

\* C32: after humanType with clearFirst on a field that holds prior content,
\* the prior content is gone and the value of the field is exactly the text,
\* whether the field is cleared by backspaces (clearText, clearTextManually)
\* or by the select-all and Delete shortcut.
C32_PriorContentCleared ==
  clearing.pc = "done" /\ clearing.prior # << >>
    => clearing.field.value = clearing.text

\* C31: the entry that getElement returns refers, at the moment it is
\* returned, to a node that is attached to the document and visible: a
\* cached entry is returned only after the attached-and-visible check, else
\* the name is resolved again, and if it cannot be resolved getElement
\* throws instead of returning the stale entry.
C31_ReturnedEntryIsValid ==
  [][ lookup.pc # "returned" /\ lookup'.pc = "returned"
        => IsElementStillValid(lookup.result.element)' ]_vars

====
